---- MODULE Spec2Model ----
(***************************************************************************)
(* The LLM provider layer of ai-scripts-and-tools: the configuration        *)
(* factory (llm-client-factory.ts), queryLLM (llm.ts) and the provider      *)
(* clients (openai, anthropic, gemini, custom, local) with their transport. *)
(*                                                                         *)
(* JavaScript objects are functions from own-property names to values; a    *)
(* property that is present with the value undefined is in the DOMAIN and   *)
(* maps to Undefined (strings) or NoNum (numbers).  Texts that the code     *)
(* trims, joins or searches are sequences of one-character strings; error   *)
(* messages are sequences of words.                                         *)
(***************************************************************************)
EXTENDS Integers, Sequences, FiniteSets, TLC

VARIABLES
  env,        \* process.env as seen after dotenv: variable name -> string or Undefined
  instance,   \* LLMClientFactory.instance exists
  loads,      \* number of times loadConfig has run
  config,     \* LLMClientFactory.config, the shared configuration
  cc,         \* the last stand-alone factory.createClient call and its outcome
  calls,      \* queryLLM invocations: call id -> frame of the async function
  client,     \* a provider client object under test (client-level specification)
  rev,        \* which revision of the client class `client` is built from
  gc,         \* the last getCompletion call on `client` and its outcome
  held,       \* objects a caller keeps: a getConfig result and a createClient result
  run,        \* the multi-provider test run (test-llm-providers.ts main)
  request,    \* one HttpClient.request call: its promise, socket and response
  gen         \* one run of the commit-message generator (generate-git-commit.ts main)

vars == <<env, instance, loads, config, cc, calls, client, rev, gc, held, run, request, gen>>

----------------------------------------------------------------------------
(* Values and objects *)

Undefined == "<undefined>"
NoNum == -1

NumKeys == {"temperature", "maxTokens"}

EmptyObj == <<>>

Has(o, k) == k \in DOMAIN o

\* o.k : the value of property k, undefined when o has no such property
Get(o, k) == IF k \in DOMAIN o THEN o[k] ELSE IF k \in NumKeys THEN NoNum ELSE Undefined

\* { ...a, ...b }
Spread(a, b) == [k \in (DOMAIN a) \cup (DOMAIN b) |-> IF k \in DOMAIN b THEN b[k] ELSE a[k]]

\* JavaScript truthiness of a string-or-undefined, and of a number-or-undefined
Truthy(v) == v # Undefined /\ v # ""
TruthyNum(n) == n # NoNum /\ n # 0

\* v || d
OrElse(v, d) == IF Truthy(v) THEN v ELSE d

Providers == {"local", "openai", "anthropic", "gemini", "custom"}

----------------------------------------------------------------------------
(* Environment and LLMClientFactory.loadConfig *)

\* parseFloat / parseInt of the numerals the environments use (temperature in tenths)
parseFloat(s) == CASE s = "0.7" -> 7 [] s = "0" -> 0 [] OTHER -> NoNum
parseInt(s) == CASE s = "100" -> 100 [] s = "0" -> 0 [] OTHER -> NoNum

DefaultConfig == [provider |-> "local"]

loadConfig(e) ==
  [provider |-> OrElse(e["LLM_PROVIDER"], "local"),
   model |-> e["LLM_MODEL"],
   temperature |-> IF Truthy(e["LLM_TEMPERATURE"]) THEN parseFloat(e["LLM_TEMPERATURE"]) ELSE NoNum,
   maxTokens |-> IF Truthy(e["LLM_MAX_TOKENS"]) THEN parseInt(e["LLM_MAX_TOKENS"]) ELSE NoNum,
   openaiApiKey |-> e["OPENAI_API_KEY"],
   openaiEndpoint |-> e["OPENAI_ENDPOINT"],
   openaiDefaultModel |-> e["OPENAI_DEFAULT_MODEL"],
   anthropicApiKey |-> e["ANTHROPIC_API_KEY"],
   anthropicEndpoint |-> e["ANTHROPIC_ENDPOINT"],
   anthropicDefaultModel |-> e["ANTHROPIC_DEFAULT_MODEL"],
   geminiApiKey |-> e["GEMINI_API_KEY"],
   geminiEndpoint |-> e["GEMINI_ENDPOINT"],
   geminiDefaultModel |-> e["GEMINI_DEFAULT_MODEL"],
   localEndpoint |-> e["LOCAL_LLM_ENDPOINT"],
   localModel |-> e["LOCAL_LLM_MODEL"],
   customProviderName |-> e["CUSTOM_PROVIDER_NAME"],
   customApiKey |-> e["CUSTOM_API_KEY"],
   customEndpoint |-> e["CUSTOM_ENDPOINT"],
   customDefaultModel |-> e["CUSTOM_DEFAULT_MODEL"]]

\* the configuration the singleton holds once getInstance has run
\* a getInstance that constructs a factory on every call
getInstance_alwaysNew(inst, cfg, n, e) == [config |-> loadConfig(e), loads |-> n + 1]

\* LLMClientFactory.getInstance: the constructor, hence loadConfig, runs only when no
\* instance exists; the result is the singleton's configuration and the number of loads
getInstance(inst, cfg, n, e) ==
  IF ~inst THEN [config |-> loadConfig(e), loads |-> n + 1] ELSE [config |-> cfg, loads |-> n]

getInstanceConfig == getInstance(instance, config, loads, env).config

\* a getConfig that hands out this.config itself
getConfig_sameObject(cfg) == [value |-> cfg, same |-> TRUE]

\* LLMClientFactory.getConfig: { ...this.config } is a new object with the same
\* properties; `same` tells whether the returned object is this.config itself
getConfig(cfg) == [value |-> Spread(EmptyObj, cfg), same |-> FALSE]

updateConfig(cfg, newConfig) == Spread(cfg, newConfig)

----------------------------------------------------------------------------
(* Provider client constructors *)

DEFAULT_TEMPERATURE == 5
DEFAULT_MAX_TOKENS == 500

OPENAI_DEFAULT_MODEL == "gpt-3.5-turbo-instruct"
OPENAI_DEFAULT_ENDPOINT == "https://api.openai.com/v1/completions"
OPENAI_CHAT_ENDPOINT == "https://api.openai.com/v1/chat/completions"
ANTHROPIC_DEFAULT_MODEL == "claude-3-sonnet-20240229"
ANTHROPIC_DEFAULT_ENDPOINT == "https://api.anthropic.com/v1/messages"
GEMINI_DEFAULT_MODEL == "gemini-1.5-flash"
GEMINI_DEFAULT_ENDPOINT == "https://generativelanguage.googleapis.com/v1"
LOCAL_DEFAULT_MODEL == "llama-3.2-3b-instruct"
LOCAL_DEFAULT_ENDPOINT == "http://127.0.0.1:1234/v1/completions"

Thrown(msg) == [kind |-> "throw", message |-> msg]
Built(impl, options, providerName) ==
  [kind |-> "client", impl |-> impl, options |-> options, providerName |-> providerName]

\* BaseLLMClient constructor: this.options = { temperature: 0.5, maxTokens: 500, ...options }
BaseLLMClient(options) ==
  Spread([temperature |-> DEFAULT_TEMPERATURE, maxTokens |-> DEFAULT_MAX_TOKENS], options)

OpenAILLMClient(options) ==
  IF ~Truthy(Get(options, "apiKey"))
  THEN Thrown(<<"OpenAI", "API", "key", "is", "required">>)
  ELSE Built("openai",
             BaseLLMClient(Spread([model |-> OPENAI_DEFAULT_MODEL, endpoint |-> OPENAI_DEFAULT_ENDPOINT], options)),
             "")

AnthropicLLMClient(options) ==
  IF ~Truthy(Get(options, "apiKey"))
  THEN Thrown(<<"Anthropic", "API", "key", "is", "required">>)
  ELSE Built("anthropic",
             BaseLLMClient(Spread([model |-> ANTHROPIC_DEFAULT_MODEL, endpoint |-> ANTHROPIC_DEFAULT_ENDPOINT], options)),
             "")

GeminiLLMClient(options) ==
  IF ~Truthy(Get(options, "apiKey"))
  THEN Thrown(<<"Google", "API", "key", "is", "required">>)
  ELSE Built("gemini",
             BaseLLMClient(Spread([model |-> GEMINI_DEFAULT_MODEL, endpoint |-> GEMINI_DEFAULT_ENDPOINT], options)),
             "")

CustomLLMClient(options, providerName) ==
  IF ~Truthy(Get(options, "apiKey"))
  THEN Thrown(<<"API", "key", "is", "required", "for", "custom", "provider">>)
  ELSE IF ~Truthy(Get(options, "endpoint"))
  THEN Thrown(<<"Endpoint", "is", "required", "for", "custom", "provider">>)
  ELSE Built("custom", BaseLLMClient(options), OrElse(providerName, "Custom Provider"))

LocalLLMClient(options) ==
  Built("local",
        BaseLLMClient(Spread([model |-> LOCAL_DEFAULT_MODEL, endpoint |-> LOCAL_DEFAULT_ENDPOINT], options)),
        "")

----------------------------------------------------------------------------
(* LLMClientFactory.getModelForProvider and createClient *)

getModelForProvider(cfg, provider) ==
  IF Truthy(Get(cfg, "model")) THEN Get(cfg, "model")
  ELSE CASE provider = "openai" -> Get(cfg, "openaiDefaultModel")
         [] provider = "anthropic" -> Get(cfg, "anthropicDefaultModel")
         [] provider = "gemini" -> Get(cfg, "geminiDefaultModel")
         [] provider = "custom" -> Get(cfg, "customDefaultModel")
         [] provider = "local" -> Get(cfg, "localModel")
         [] OTHER -> Undefined

\* a createClient that stores the merged configuration in this.config
sharedAfterCreate_merged(cfg, overrideConfig) == Spread(cfg, overrideConfig)

\* this.config after createClient: the merge is a local constant, this.config is not assigned
sharedAfterCreate(cfg, overrideConfig) == cfg

createClient_copyPaste(cfg, overrideConfig) ==
  LET merged == Spread(cfg, overrideConfig)
      provider == Get(merged, "provider")
      common == [temperature |-> Get(merged, "temperature"), maxTokens |-> Get(merged, "maxTokens")]
  IN CASE provider = "openai" ->
            IF ~Truthy(Get(merged, "openaiApiKey"))
            THEN Thrown(<<"OpenAI", "API", "key", "is", "required", "for", "OpenAI", "provider">>)
            ELSE OpenAILLMClient(Spread(common,
                   [apiKey |-> Get(merged, "openaiApiKey"),
                    model |-> getModelForProvider(merged, "openai"),
                    endpoint |-> Get(merged, "openaiEndpoint")]))
       [] provider = "anthropic" ->
            IF ~Truthy(Get(merged, "anthropicApiKey"))
            THEN Thrown(<<"OpenAI", "API", "key", "is", "required", "for", "OpenAI", "provider">>)
            ELSE AnthropicLLMClient(Spread(common,
                   [apiKey |-> Get(merged, "anthropicApiKey"),
                    model |-> getModelForProvider(merged, "anthropic"),
                    endpoint |-> Get(merged, "anthropicEndpoint")]))
       [] provider = "gemini" ->
            IF ~Truthy(Get(merged, "geminiApiKey"))
            THEN Thrown(<<"Google", "API", "key", "is", "required", "for", "Gemini", "provider">>)
            ELSE GeminiLLMClient(Spread(common,
                   [apiKey |-> Get(merged, "geminiApiKey"),
                    model |-> getModelForProvider(merged, "gemini"),
                    endpoint |-> Get(merged, "geminiEndpoint")]))
       [] provider = "custom" ->
            IF ~Truthy(Get(merged, "customApiKey"))
            THEN Thrown(<<"API", "key", "is", "required", "for", "custom", "provider">>)
            ELSE IF ~Truthy(Get(merged, "customEndpoint"))
            THEN Thrown(<<"Endpoint", "is", "required", "for", "custom", "provider">>)
            ELSE CustomLLMClient(Spread(common,
                   [apiKey |-> Get(merged, "customApiKey"),
                    endpoint |-> Get(merged, "customEndpoint"),
                    model |-> getModelForProvider(merged, "custom")]),
                   Get(merged, "customProviderName"))
       [] OTHER ->
            LocalLLMClient(Spread(common,
                   [model |-> getModelForProvider(merged, "local"),
                    endpoint |-> Get(merged, "localEndpoint")]))

createClient(cfg, overrideConfig) ==
  LET merged == Spread(cfg, overrideConfig)
      provider == Get(merged, "provider")
      common == [temperature |-> Get(merged, "temperature"), maxTokens |-> Get(merged, "maxTokens")]
  IN CASE provider = "openai" ->
            IF ~Truthy(Get(merged, "openaiApiKey"))
            THEN Thrown(<<"OpenAI", "API", "key", "is", "required", "for", "OpenAI", "provider">>)
            ELSE OpenAILLMClient(Spread(common,
                   [apiKey |-> Get(merged, "openaiApiKey"),
                    model |-> getModelForProvider(merged, "openai"),
                    endpoint |-> Get(merged, "openaiEndpoint")]))
       [] provider = "anthropic" ->
            IF ~Truthy(Get(merged, "anthropicApiKey"))
            THEN Thrown(<<"Anthropic", "API", "key", "is", "required", "for", "Anthropic", "provider">>)
            ELSE AnthropicLLMClient(Spread(common,
                   [apiKey |-> Get(merged, "anthropicApiKey"),
                    model |-> getModelForProvider(merged, "anthropic"),
                    endpoint |-> Get(merged, "anthropicEndpoint")]))
       [] provider = "gemini" ->
            IF ~Truthy(Get(merged, "geminiApiKey"))
            THEN Thrown(<<"Google", "API", "key", "is", "required", "for", "Gemini", "provider">>)
            ELSE GeminiLLMClient(Spread(common,
                   [apiKey |-> Get(merged, "geminiApiKey"),
                    model |-> getModelForProvider(merged, "gemini"),
                    endpoint |-> Get(merged, "geminiEndpoint")]))
       [] provider = "custom" ->
            IF ~Truthy(Get(merged, "customApiKey"))
            THEN Thrown(<<"API", "key", "is", "required", "for", "custom", "provider">>)
            ELSE IF ~Truthy(Get(merged, "customEndpoint"))
            THEN Thrown(<<"Endpoint", "is", "required", "for", "custom", "provider">>)
            ELSE CustomLLMClient(Spread(common,
                   [apiKey |-> Get(merged, "customApiKey"),
                    endpoint |-> Get(merged, "customEndpoint"),
                    model |-> getModelForProvider(merged, "custom")]),
                   Get(merged, "customProviderName"))
       [] OTHER ->
            LocalLLMClient(Spread(common,
                   [model |-> getModelForProvider(merged, "local"),
                    endpoint |-> Get(merged, "localEndpoint")]))

----------------------------------------------------------------------------
(* Strings: model names are spelled out so that toLowerCase and includes    *)
(* can be computed; response texts are sequences of characters.            *)

Spell(name) ==
  CASE name = "" -> <<>>
    [] name = "gpt-4" -> <<"g", "p", "t", "-", "4">>
    [] name = "gpt-4-turbo" -> <<"g", "p", "t", "-", "4", "-", "t", "u", "r", "b", "o">>
    [] name = "gpt-4o" -> <<"g", "p", "t", "-", "4", "o">>
    [] name = "gpt-3.5-turbo" -> <<"g", "p", "t", "-", "3", ".", "5", "-", "t", "u", "r", "b", "o">>
    [] name = "gpt-4o-2024" -> <<"g", "p", "t", "-", "4", "o", "-", "2", "0", "2", "4">>
    [] name = "gpt-3.5-turbo-instruct" -> <<"g", "p", "t", "-", "3", ".", "5", "-", "t", "u", "r", "b", "o", "-", "i", "n", "s", "t", "r", "u", "c", "t">>
    [] name = "GPT-4" -> <<"G", "P", "T", "-", "4">>
    [] name = "Gpt-4o-Mini" -> <<"G", "p", "t", "-", "4", "o", "-", "M", "i", "n", "i">>
    [] name = "davinci-002" -> <<"d", "a", "v", "i", "n", "c", "i", "-", "0", "0", "2">>
    [] name = "text-davinci-003" -> <<"t", "e", "x", "t", "-", "d", "a", "v", "i", "n", "c", "i", "-", "0", "0", "3">>
    [] name = "gpt-35-turbo" -> <<"g", "p", "t", "-", "3", "5", "-", "t", "u", "r", "b", "o">>
    [] name = "ft:gpt-4:acme" -> <<"f", "t", ":", "g", "p", "t", "-", "4", ":", "a", "c", "m", "e">>
    [] name = "claude-3-sonnet-20240229" -> <<"c", "l", "a", "u", "d", "e", "-", "3", "-", "s", "o", "n", "n", "e", "t", "-", "2", "0", "2", "4", "0", "2", "2", "9">>
    [] name = "gemini-1.5-flash" -> <<"g", "e", "m", "i", "n", "i", "-", "1", ".", "5", "-", "f", "l", "a", "s", "h">>
    [] name = "llama-3.2-3b-instruct" -> <<"l", "l", "a", "m", "a", "-", "3", ".", "2", "-", "3", "b", "-", "i", "n", "s", "t", "r", "u", "c", "t">>
    [] name = "claude-3-haiku" -> <<"c", "l", "a", "u", "d", "e", "-", "3", "-", "h", "a", "i", "k", "u">>
    [] name = "gemini-pro" -> <<"g", "e", "m", "i", "n", "i", "-", "p", "r", "o">>
    [] name = "mistral-7b" -> <<"m", "i", "s", "t", "r", "a", "l", "-", "7", "b">>
    [] name = "qwen2" -> <<"q", "w", "e", "n", "2">>

\* String.prototype.toLowerCase, character by character
LowerChar(ch) ==
  CASE ch = "G" -> "g" [] ch = "M" -> "m" [] ch = "P" -> "p" [] ch = "T" -> "t"
    [] ch = "U" -> "u" [] ch = "E" -> "e" [] ch = "C" -> "c" [] ch = "Y" -> "y" [] OTHER -> ch

toLowerCase(s) == [i \in 1..Len(s) |-> LowerChar(s[i])]

\* String.prototype.includes / Array-of-words containment: p occurs contiguously in s
includes(s, p) == \E i \in 0..(Len(s) - Len(p)) : SubSeq(s, i + 1, i + Len(p)) = p

IsSpace(ch) == ch \in {" ", "\n"}

RECURSIVE trimStart(_)
trimStart(s) == IF s # <<>> /\ IsSpace(Head(s)) THEN trimStart(Tail(s)) ELSE s

RECURSIVE trimEnd(_)
trimEnd(s) == IF s # <<>> /\ IsSpace(s[Len(s)]) THEN trimEnd(SubSeq(s, 1, Len(s) - 1)) ELSE s

\* trailing white space kept
trim_startOnly(s) == trimStart(s)

\* String.prototype.trim
trim(s) == trimEnd(trimStart(s))

\* Array.prototype.join(sep) over an array of strings
RECURSIVE join(_, _)
join(parts, sep) ==
  IF parts = <<>> THEN <<>>
  ELSE IF Len(parts) = 1 THEN parts[1]
  ELSE parts[1] \o sep \o join(Tail(parts), sep)

\* the words of a display name, as they appear in a message
Words(name) ==
  CASE name = "OpenAI" -> <<"OpenAI">>
    [] name = "Anthropic" -> <<"Anthropic">>
    [] name = "Anthropic Claude" -> <<"Anthropic", "Claude">>
    [] name = "Google Gemini" -> <<"Google", "Gemini">>
    [] name = "Local LLM" -> <<"Local", "LLM">>
    [] name = "Custom Provider" -> <<"Custom", "Provider">>
    [] name = "Acme" -> <<"Acme">>

----------------------------------------------------------------------------
(* Transport: what one request produces *)

\* a request that produced a response (status, body), or one that failed to connect / timed out
Response(status, body) == [net |-> "ok", status |-> status, body |-> body]
NoResponse == [net |-> "fail", status |-> 0, body |-> [kind |-> "empty", value |-> EmptyObj]]

NotJson == [kind |-> "notjson", value |-> EmptyObj]
EmptyBody == [kind |-> "empty", value |-> EmptyObj]
JsonNull == [kind |-> "null", value |-> EmptyObj]
JsonObject(o) == [kind |-> "object", value |-> o]

Result(text, usage) == [kind |-> "result", text |-> text, usage |-> usage]
Err(name, msg, status) == [kind |-> "throw", name |-> name, message |-> msg, status |-> status]

\* `${error}` for an Error object
errorToString(e) == <<e.name, ":">> \o e.message

\* `${value}` for a string-or-undefined
show(v) == IF v = Undefined THEN <<"undefined">> ELSE <<v>>

\* JSON.parse failing, or a property read on null
SyntaxError == Err("SyntaxError", <<"Unexpected", "token">>, NoNum)
NullDeref == Err("TypeError", <<"Cannot", "read", "properties", "of", "null">>, NoNum)
UndefDeref == Err("TypeError", <<"Cannot", "read", "properties", "of", "undefined">>, NoNum)

\* curl through runCommand (shell.ts): stdout is the body whatever the HTTP status is
\* (no --fail flag); a failed command makes execSync, hence runCommand, throw
runCommandError == Err("Error", <<"Error", "executing", "command", ":", "Command", "failed">>, NoNum)

usageOf(p) == IF Has(p, "usage") THEN p["usage"] ELSE EmptyObj

GetNum(o, k) == IF k \in DOMAIN o THEN o[k] ELSE NoNum

\* a missing count passed on as it is
OrZero_asIs(n) == n

\* n || 0
OrZero(n) == IF TruthyNum(n) THEN n ELSE 0

----------------------------------------------------------------------------
(* Provider clients: getName, isConfigured, getCompletion.                  *)
(* AnthropicLLMClient and LocalLLMClient exist in two revisions: "curl"     *)
(* (runCommand) and "http" (BaseLLMClient.sendLLMRequest).                  *)

\* isProviderConfigured of the provider test, on a copy of the configuration
isProviderConfigured(cfg, provider) ==
  CASE provider = "openai" -> Truthy(Get(cfg, "openaiApiKey"))
    [] provider = "anthropic" -> Truthy(Get(cfg, "anthropicApiKey"))
    [] provider = "gemini" -> Truthy(Get(cfg, "geminiApiKey"))
    [] provider = "custom" -> Truthy(Get(cfg, "customApiKey")) /\ Truthy(Get(cfg, "customEndpoint"))
    [] provider = "local" -> TRUE
    [] OTHER -> FALSE

\* options.maxTokens || 200 of the provider test
TEST_MAX_TOKENS == 200

\* a loop that starts the next test without waiting
loopMayProceed_noAwait(outstanding) == TRUE

\* for (...) { const result = await testProvider(...) }: the loop body does not
\* proceed while the awaited test is outstanding
loopMayProceed(outstanding) == outstanding = {}

\* HttpClient.request inputs
HttpMethods == {"post", "GET"}
HttpUrls == {[valid |-> TRUE, protocol |-> "https:"], [valid |-> TRUE, protocol |-> "http:"],
             [valid |-> FALSE, protocol |-> Undefined]}
HttpData == {[type |-> "undefined", text |-> Undefined], [type |-> "string", text |-> ""],
             [type |-> "string", text |-> "ping"], [type |-> "object", text |-> "{}"]}
HttpOptions == {EmptyObj, [timeout |-> 0], [timeout |-> 10000]}

\* what the peer does with the request: it answers, refuses the connection,
\* accepts and never answers, or sends the response head and nothing more
Servers == {"answers", "refuses", "silent", "stalls"}
StatusCodes == {200, 500, NoNum}
Chunks == {"a", "b"}
MaxChunks == 2
TickMs == 10000

\* options.timeout || 30000
DEFAULT_TIMEOUT == 30000
requestTimeout(options) ==
  IF Has(options, "timeout") /\ options.timeout # 0 THEN options.timeout ELSE DEFAULT_TIMEOUT

\* method.toUpperCase()
toUpperCase(method) ==
  CASE method = "post" -> "POST"
    [] method = "get" -> "GET"
    [] OTHER -> method

\* if (data): the body is written only for a truthy data
hasBody(data) == data.type = "object" \/ (data.type = "string" /\ data.text # "")

\* the promise has no value yet
NoValue == [kind |-> "none"]

\* the state after the executor has run to clientRequest.end()
Issued(method, url, data, options, server) ==
  [pc |-> "called",
   method |-> toUpperCase(method),
   isHttps |-> url.protocol = "https:",
   headers |-> {"Content-Type"} \cup (IF hasBody(data) THEN {"Content-Length"} ELSE {}),
   written |-> IF hasBody(data) THEN data.text ELSE Undefined,
   timeout |-> requestTimeout(options),
   server |-> server,
   phase |-> "connecting",
   idle |-> 0,
   timedOut |-> FALSE,
   statusCode |-> NoNum,
   chunks |-> <<>>,
   promise |-> "pending",
   reason |-> Undefined,
   value |-> NoValue]

\* resolve and reject act on a pending promise only
settle(promise, outcome) == IF promise = "pending" THEN outcome ELSE promise

\* the listeners of clientRequest's 'timeout' event: none is registered (only
\* 'error' is), so the event changes nothing
onTimeout(req) == req

\* testProvider's result: success with the response, or the catch block's
\* success = false with error = error.message
testResult(provider, outcome) ==
  IF outcome.kind = "throw"
  THEN [provider |-> provider, success |-> FALSE, error |-> outcome.message]
  ELSE [provider |-> provider, success |-> TRUE, response |-> outcome.text]

\* a run that ends at the first failed test
pushResult_failFast(r, result) ==
  IF result.success THEN [r EXCEPT !.results = Append(@, result)] ELSE [r EXCEPT !.pc = "done"]

\* results.push(result) after the awaited testProvider has returned
pushResult(r, result) == [r EXCEPT !.results = Append(@, result)]

\* a test that ended before any request was issued
NoPeer == [rev |-> "none", transport |-> NoResponse]

\* String.prototype.substring(start, end): both indices are clamped to 0..length
\* and swapped when start > end
Clamp(n, len) == IF n < 0 THEN 0 ELSE IF n > len THEN len ELSE n
substring(s, start, end) ==
  LET a == Clamp(start, Len(s))
      b == Clamp(end, Len(s))
  IN IF a <= b THEN SubSeq(s, a + 1, b) ELSE SubSeq(s, b + 1, a)

\* "\n\n... [content truncated for brevity] ...\n\n"
TRUNCATION_MARKER ==
  <<"\n", "\n", ".", ".", ".", " ", "[", "c", "o", "n", "t",
    "e", "n", "t", " ", "t", "r", "u", "n", "c", "a", "t",
    "e", "d", " ", "f", "o", "r", " ", "b", "r", "e", "v",
    "i", "t", "y", "]", " ", ".", ".", ".", "\n", "\n">>

\* truncateText: the text itself when it fits, otherwise its first and last
\* floor(maxLength / 2) characters around the marker
truncateText(text, maxLength) ==
  IF Len(text) <= maxLength THEN text
  ELSE LET halfLength == maxLength \div 2
           beginning == substring(text, 0, halfLength)
           end == substring(text, Len(text) - halfLength, Len(text))
       IN beginning \o TRUNCATION_MARKER \o end

\* JSON.stringify of a string, without the surrounding quotes: quote, backslash
\* and newline are escaped
RECURSIVE jsonEscape(_)
jsonEscape(s) ==
  IF s = <<>> THEN <<>>
  ELSE (CASE Head(s) = "\"" -> <<"\\", "\"">>
          [] Head(s) = "\\" -> <<"\\", "\\">>
          [] Head(s) = "\n" -> <<"\\", "n">>
          [] OTHER -> <<Head(s)>>) \o jsonEscape(Tail(s))

\* what the shell makes of the inside of a double-quoted word: a backslash is
\* removed only before a quote, a backslash or a dollar (or a backquote, a
\* character the messages here do not contain)
RECURSIVE shellUnquote(_)
shellUnquote(s) ==
  IF s = <<>> THEN <<>>
  ELSE IF Head(s) = "\\" /\ Len(s) >= 2 /\ s[2] \in {"\"", "\\", "$"}
  THEN <<s[2]>> \o shellUnquote(SubSeq(s, 3, Len(s)))
  ELSE <<Head(s)>> \o shellUnquote(Tail(s))

\* the message git commit receives: through a file and -F, or on the command
\* line as -m ${JSON.stringify(message)}
commitMessage(revision, message) ==
  IF revision = "file" THEN message ELSE shellUnquote(jsonEscape(message))

\* the two revisions of the generator's main
GeneratorRevisions == {"file", "inline"}

\* the output of git diff --cached and the limits it is truncated to
MaxDiffLen == 3
DiffTexts == UNION {[1..k -> {"a", "\n"}] : k \in 0..MaxDiffLen} \cup {[i \in 1..60 |-> "a"]}
DiffLimits == {0, 1, 2, 3, 50}

\* processed commit messages, and what an editor may save
Messages == {<<"a">>, <<"a", "\n", "a">>, <<"\"", "a", "\"">>}
EditedMessages == {<<"b">>, <<"a", "\n", "a">>}

\* what the user types at a question
Answers == {<<"u">>, <<"U">>, <<"e">>, <<"E">>, <<"c">>, <<"a">>, <<"y">>, <<"Y">>, <<"n">>, <<>>}

\* an empty answer taken for the letter asked about
answered_emptyIsYes(answer, letter) == answer = <<>> \/ toLowerCase(answer) = letter

\* the answer is the letter, in either case
answered(answer, letter) == toLowerCase(answer) = letter

\* the generator once its message has been printed
Asking(revision, message) ==
  [pc |-> "asking", revision |-> revision, original |-> message, message |-> message,
   action |-> <<>>, editor |-> "none", confirm |-> <<>>, commits |-> <<>>, code |-> 0]

\* the generator has returned or the process has exited
Ended(g, code) == [g EXCEPT !.pc = "ended", !.code = code]

\* runCommand of git commit with the current message, then 'Commit successful.'
\* or the catch block's process.exit(1)
commit(g, gitOk) ==
  [g EXCEPT !.pc = "ended",
            !.commits = Append(@, commitMessage(g.revision, g.message)),
            !.code = IF gitOk THEN 0 ELSE 1]

Revisions(impl) ==
  CASE impl = "openai" -> {"curl"}
    [] impl = "gemini" -> {"curl"}
    [] impl = "custom" -> {"http"}
    [] impl = "anthropic" -> {"curl", "http"}
    [] impl = "local" -> {"curl", "http"}

getName(c, r) ==
  CASE c.impl = "openai" -> "OpenAI"
    [] c.impl = "anthropic" -> IF r = "curl" THEN "Anthropic Claude" ELSE "Anthropic"
    [] c.impl = "gemini" -> "Google Gemini"
    [] c.impl = "local" -> "Local LLM"
    [] c.impl = "custom" -> c.providerName

isConfigured(c) ==
  CASE c.impl = "custom" -> Truthy(Get(c.options, "apiKey")) /\ Truthy(Get(c.options, "endpoint"))
    [] c.impl = "local" -> Truthy(Get(c.options, "endpoint"))
    [] OTHER -> Truthy(Get(c.options, "apiKey"))

CHAT_MODELS == {"gpt-4", "gpt-4-turbo", "gpt-4o", "gpt-3.5-turbo", "gpt-4o-2024"}

isChatModel_exact(model) == model \in CHAT_MODELS

isChatModel(model) ==
  \E chatModel \in CHAT_MODELS :
    includes(toLowerCase(Spell(model)), toLowerCase(Spell(chatModel)))

\* the request a client hands to the transport
Request(url, shape, options, auth) ==
  [url |-> url, shape |-> shape, model |-> Get(options, "model"),
   max_tokens |-> Get(options, "maxTokens"), temperature |-> Get(options, "temperature"),
   auth |-> auth]

\* the two enclosing catch blocks of the curl clients
curlWrap(label, t, parsed) ==
  LET inner == IF parsed.kind = "throw"
               THEN Err("Error", <<"Error", "parsing", label, "response", ":">> \o errorToString(parsed), NoNum)
               ELSE parsed
      attempt == IF t.net = "fail" THEN runCommandError ELSE inner
  IN IF attempt.kind = "throw"
     THEN Err("Error", <<"Error", "calling", label, "API", ":">> \o errorToString(attempt), NoNum)
     ELSE attempt

OpenAI_parse(body, usesChatAPI) ==
  IF body.kind \in {"notjson", "empty"} THEN SyntaxError
  ELSE IF body.kind = "null" THEN NullDeref
  ELSE LET p == body.value IN
    IF Has(p, "error")
    THEN Err("Error", <<"OpenAI", "API", "error", ":">> \o show(Get(p["error"], "message")), NoNum)
    ELSE IF Has(p, "choices") /\ Len(p["choices"]) > 0
    THEN LET ch == p["choices"][1] IN
         IF usesChatAPI
         THEN IF Has(ch, "message") /\ Has(ch["message"], "content") /\ ch["message"]["content"] # <<>>
              THEN Result(trim(ch["message"]["content"]), usageOf(p))
              ELSE Err("Error", <<"Invalid", "chat", "response", "format", "from", "OpenAI", "API">>, NoNum)
         ELSE IF Has(ch, "text") /\ ch["text"] # <<>>
              THEN Result(trim(ch["text"]), usageOf(p))
              ELSE Err("Error", <<"Invalid", "completions", "response", "format", "from", "OpenAI", "API">>, NoNum)
    ELSE Err("Error", <<"Invalid", "response", "format", "from", "OpenAI", "API">>, NoNum)

OpenAI_getCompletion(c, overrideOptions, t) ==
  LET options == Spread(c.options, overrideOptions)
      usesChatAPI == isChatModel(OrElse(Get(options, "model"), ""))
      endpoint == IF usesChatAPI THEN OPENAI_CHAT_ENDPOINT ELSE Get(options, "endpoint")
      shape == IF usesChatAPI THEN "chat" ELSE "completions"
  IN [out |-> curlWrap("OpenAI", t, OpenAI_parse(t.body, usesChatAPI)),
      requests |-> <<Request(endpoint, shape, options, <<"Bearer", Get(options, "apiKey")>>)>>,
      parsedAs |-> shape]

IsTextBlock(item) == Has(item, "type") /\ item["type"] = "text"

\* item.text as Array.prototype.join renders it (undefined becomes the empty string)
joinedText(item) == IF Has(item, "text") THEN item["text"] ELSE <<>>

AnthropicCurl_parse(body) ==
  IF body.kind \in {"notjson", "empty"} THEN SyntaxError
  ELSE IF body.kind = "null" THEN NullDeref
  ELSE LET p == body.value IN
    IF Has(p, "error")
    THEN Err("Error", <<"Anthropic", "API", "error", ":">> \o show(Get(p["error"], "message")), NoNum)
    ELSE IF Has(p, "content") /\ Len(p["content"]) > 0
    THEN LET blocks == SelectSeq(p["content"], IsTextBlock)
             texts == [i \in 1..Len(blocks) |-> joinedText(blocks[i])]
         IN Result(trim(join(texts, <<"\n">>)), usageOf(p))
    ELSE Err("Error", <<"Invalid", "response", "format", "from", "Anthropic", "API">>, NoNum)

AnthropicCurl_getCompletion(c, overrideOptions, t) ==
  LET options == Spread(c.options, overrideOptions)
  IN [out |-> curlWrap("Anthropic", t, AnthropicCurl_parse(t.body)),
      requests |-> <<Request(Get(options, "endpoint"), "messages", options, <<"x-api-key", Get(options, "apiKey")>>)>>,
      parsedAs |-> "messages"]

HasText(part) == Has(part, "text") /\ part["text"] # <<>>

Gemini_parse(body) ==
  IF body.kind = "notjson" THEN SyntaxError
  ELSE IF body.kind = "null" THEN NullDeref
  ELSE LET p == body.value IN
    IF Has(p, "error")
    THEN Err("Error", <<"Gemini", "API", "error", ":">> \o show(Get(p["error"], "message")), NoNum)
    ELSE IF /\ Has(p, "candidates") /\ Len(p["candidates"]) > 0
            /\ Has(p["candidates"][1], "content")
            /\ Has(p["candidates"][1]["content"], "parts")
            /\ Len(p["candidates"][1]["content"]["parts"]) > 0
    THEN LET parts == SelectSeq(p["candidates"][1]["content"]["parts"], HasText)
             texts == [i \in 1..Len(parts) |-> parts[i]["text"]]
             um == IF Has(p, "usageMetadata") THEN p["usageMetadata"] ELSE EmptyObj
         IN Result(trim(join(texts, <<"\n">>)),
                   [promptTokens |-> OrZero(GetNum(um, "promptTokenCount")),
                    completionTokens |-> OrZero(GetNum(um, "candidatesTokenCount")),
                    totalTokens |-> OrZero(GetNum(um, "promptTokenCount"))
                                    + OrZero(GetNum(um, "candidatesTokenCount"))])
    ELSE Err("Error", <<"Invalid", "response", "format", "from", "Gemini", "API">>, NoNum)

\* the response-file block: every failure inside it is replaced by one fixed error
Gemini_read(body) ==
  LET parsed == IF body.kind = "empty"
                THEN Err("Error", <<"Empty", "response", "from", "Gemini", "API">>, NoNum)
                ELSE Gemini_parse(body)
  IN IF parsed.kind = "throw"
     THEN Err("Error", <<"Failed", "to", "read", "API", "response">>, NoNum)
     ELSE parsed

Gemini_getCompletion(c, overrideOptions, t) ==
  LET options == Spread(c.options, overrideOptions)
      attempt == IF t.net = "fail" THEN runCommandError ELSE Gemini_read(t.body)
      out == IF attempt.kind = "throw"
             THEN Err("Error", <<"Error", "calling", "Gemini", "API", ":">> \o errorToString(attempt), NoNum)
             ELSE attempt
  IN [out |-> out,
      requests |-> <<Request(Get(options, "endpoint"), "generateContent", options, <<"key", Get(options, "apiKey")>>)>>,
      parsedAs |-> "generateContent"]

LocalCurl_parse(body) ==
  IF body.kind \in {"notjson", "empty"} THEN SyntaxError
  ELSE IF body.kind = "null"
  THEN Err("Error", <<"Invalid", "response", "format", "from", "LLM", "API">>, NoNum)
  ELSE LET p == body.value IN
    IF Has(p, "choices") /\ Len(p["choices"]) > 0
    THEN IF Has(p["choices"][1], "text")
         THEN Result(trim(p["choices"][1]["text"]), usageOf(p))
         ELSE UndefDeref
    ELSE Err("Error", <<"Invalid", "response", "format", "from", "LLM", "API">>, NoNum)

LocalCurl_getCompletion(c, overrideOptions, t) ==
  LET options == Spread(c.options, overrideOptions)
  IN [out |-> curlWrap("LLM", t, LocalCurl_parse(t.body)),
      requests |-> <<Request(Get(options, "endpoint"), "completions", options, <<>>)>>,
      parsedAs |-> "completions"]

----------------------------------------------------------------------------
(* Clients built on BaseLLMClient.sendLLMRequest *)

createError(msg, status) == Err("Error", msg, status)

\* the catch block of parseResponse: errors whose message contains
\* "<name> API" are rethrown, everything else becomes a 500 parsing error
parseCatch(nameWords, e) ==
  IF e.kind # "throw" THEN e
  ELSE IF includes(e.message, nameWords \o <<"API">>) THEN e
  ELSE createError(<<"Error", "parsing">> \o nameWords \o <<"response", ":">> \o e.message, 500)

\* error.status || 400
errorStatus(errorObj) == IF TruthyNum(GetNum(errorObj, "status")) THEN errorObj["status"] ELSE 400

\* text?.trim()
optTrim(o, k) == IF Has(o, k) THEN trim(o[k]) ELSE <<>>

Custom_parseResponse(c, body) ==
  LET name == Words(c.providerName)
      tried ==
        IF body.kind \in {"notjson", "empty"} THEN SyntaxError
        ELSE IF body.kind = "null" THEN NullDeref
        ELSE LET p == body.value IN
          IF Has(p, "error")
          THEN createError(name \o <<"API", "error", ":">>
                             \o (IF Truthy(Get(p["error"], "message")) THEN <<p["error"]["message"]>> ELSE <<"{error}">>),
                           errorStatus(p["error"]))
          ELSE IF ~Has(p, "choices") \/ Len(p["choices"]) = 0
          THEN createError(<<"Invalid", "response", "format", "from">> \o name \o <<"API", ":", "no", "choices", "returned">>, 400)
          ELSE LET ch == p["choices"][1]
                   fromText == optTrim(ch, "text")
                   fromMessage == IF Has(ch, "message") THEN optTrim(ch["message"], "content") ELSE <<>>
                   text == IF fromText # <<>> THEN fromText ELSE fromMessage
               IN IF text = <<>>
                  THEN createError(<<"No", "text", "content", "found", "in">> \o name \o <<"response">>, 400)
                  ELSE Result(text, usageOf(p))
  IN parseCatch(name, tried)

\* text += block.text for every block of type text
RECURSIVE appendTextBlocks(_)
appendTextBlocks(content) ==
  IF content = <<>> THEN <<>>
  ELSE (IF IsTextBlock(Head(content))
        THEN (IF Has(Head(content), "text") THEN Head(content)["text"]
              ELSE <<"u", "n", "d", "e", "f", "i", "n", "e", "d">>)
        ELSE <<>>) \o appendTextBlocks(Tail(content))

AnthropicHttp_parseResponse(c, body) ==
  LET tried ==
        IF body.kind \in {"notjson", "empty"} THEN SyntaxError
        ELSE IF body.kind = "null" THEN NullDeref
        ELSE LET p == body.value IN
          IF Has(p, "error")
          THEN createError(<<"Anthropic", "API", "error", ":">> \o show(Get(p["error"], "message")),
                           errorStatus(p["error"]))
          ELSE IF ~Has(p, "content") \/ Len(p["content"]) = 0
          THEN createError(<<"Invalid", "response", "format", "from", "Anthropic", "API", ":", "no", "content", "returned">>, 400)
          ELSE LET text == appendTextBlocks(p["content"])
               IN IF text = <<>>
                  THEN createError(<<"No", "text", "content", "found", "in", "Anthropic", "response">>, 400)
                  ELSE Result(trim(text), usageOf(p))
  IN parseCatch(<<"Anthropic">>, tried)

LocalHttp_parseResponse(c, body) ==
  LET tried ==
        IF body.kind \in {"notjson", "empty"} THEN SyntaxError
        ELSE IF body.kind = "null" THEN NullDeref
        ELSE LET p == body.value IN
          IF Has(p, "error")
          THEN createError(<<"Local", "LLM", "API", "error", ":">>
                             \o (IF Truthy(Get(p["error"], "message")) THEN <<p["error"]["message"]>> ELSE <<"{error}">>),
                           errorStatus(p["error"]))
          ELSE IF ~Has(p, "choices") \/ Len(p["choices"]) = 0
          THEN createError(<<"Invalid", "response", "format", "from", "Local", "LLM", "API", ":", "no", "choices", "returned">>, 400)
          ELSE IF ~Has(p["choices"][1], "text") \/ p["choices"][1]["text"] = <<>>
          THEN createError(<<"No", "text", "content", "found", "in", "Local", "LLM", "response">>, 400)
          ELSE Result(trim(p["choices"][1]["text"]), usageOf(p))
  IN parseCatch(<<"Local", "LLM">>, tried)

parseResponse(c, body) ==
  CASE c.impl = "custom" -> Custom_parseResponse(c, body)
    [] c.impl = "anthropic" -> AnthropicHttp_parseResponse(c, body)
    [] c.impl = "local" -> LocalHttp_parseResponse(c, body)

\* HttpClient.post rejecting: a connection error, which carries no status
connectionError == Err("Error", <<"connect", "ECONNREFUSED">>, NoNum)

HTTP_ERROR_STATUS == 400

sendLLMRequest(c, options, shape, auth, t) ==
  IF ~Truthy(Get(options, "endpoint"))
  THEN [out |-> createError(<<"API", "endpoint", "not", "specified">>, 400),
        requests |-> <<>>, parsedAs |-> shape]
  ELSE
    LET attempt == IF t.net = "fail" THEN connectionError
                   ELSE IF t.status >= HTTP_ERROR_STATUS
                   THEN createError(<<"API", "returned", "error", "status", ":", ToString(t.status)>>, t.status)
                   ELSE parseResponse(c, t.body)
        out == IF attempt.kind = "throw"
               THEN createError(<<"Error", "calling">> \o Words(getName(c, "http")) \o <<"API", ":">> \o attempt.message,
                                IF TruthyNum(attempt.status) THEN attempt.status ELSE 500)
               ELSE attempt
    IN [out |-> out, requests |-> <<Request(Get(options, "endpoint"), shape, options, auth)>>, parsedAs |-> shape]

Custom_getCompletion(c, overrideOptions, t) ==
  LET options == Spread(c.options, overrideOptions)
  IN sendLLMRequest(c, options, "completions", <<"Bearer", Get(options, "apiKey")>>, t)

AnthropicHttp_getCompletion(c, overrideOptions, t) ==
  LET options == Spread(c.options, overrideOptions)
  IN sendLLMRequest(c, options, "messages", <<"x-api-key", Get(options, "apiKey")>>, t)

LocalHttp_getCompletion(c, overrideOptions, t) ==
  LET options == Spread(c.options, overrideOptions)
  IN sendLLMRequest(c, options, "completions", <<>>, t)

\* the temporary files a curl-based getCompletion leaves behind: the request
\* file is written before the try block, Gemini's curl writes a response file,
\* and the unlinkSync calls follow a successful runCommand only
tempFilesLeft(c, r, t) ==
  LET usesCurl == c.impl \in {"openai", "gemini"} \/ (c.impl \in {"anthropic", "local"} /\ r = "curl")
      created == IF ~usesCurl THEN {}
                 ELSE {"request"} \cup (IF c.impl = "gemini" /\ t.net = "ok" THEN {"response"} ELSE {})
      deleted == IF t.net = "fail" THEN {} ELSE created
  IN created \ deleted

\* client.getCompletion(prompt, overrideOptions), dispatched on the class and its revision
getCompletion(c, r, overrideOptions, t) ==
  CASE c.impl = "openai" -> OpenAI_getCompletion(c, overrideOptions, t)
    [] c.impl = "gemini" -> Gemini_getCompletion(c, overrideOptions, t)
    [] c.impl = "custom" -> Custom_getCompletion(c, overrideOptions, t)
    [] c.impl = "anthropic" /\ r = "curl" -> AnthropicCurl_getCompletion(c, overrideOptions, t)
    [] c.impl = "anthropic" /\ r = "http" -> AnthropicHttp_getCompletion(c, overrideOptions, t)
    [] c.impl = "local" /\ r = "curl" -> LocalCurl_getCompletion(c, overrideOptions, t)
    [] c.impl = "local" /\ r = "http" -> LocalHttp_getCompletion(c, overrideOptions, t)

----------------------------------------------------------------------------
(* queryLLM (llm.ts) *)

\* the environment's provider applied after the option's
applyProvider_envLast(cfg, envProvider, options) ==
  LET c1 == IF Truthy(Get(options, "provider")) THEN updateConfig(cfg, [provider |-> options["provider"]]) ELSE cfg
  IN IF Truthy(envProvider) THEN updateConfig(c1, [provider |-> envProvider]) ELSE c1

\* if (envProvider) updateConfig({ provider: envProvider }), then
\* if (options.provider) updateConfig({ provider: options.provider })
applyProvider(cfg, envProvider, options) ==
  LET c1 == IF Truthy(envProvider) THEN updateConfig(cfg, [provider |-> envProvider]) ELSE cfg
  IN IF Truthy(Get(options, "provider")) THEN updateConfig(c1, [provider |-> options["provider"]]) ELSE c1

\* the try block up to createClient: environment provider first, then the options
applyOptions(cfg, envProvider, options) ==
  LET c2 == applyProvider(cfg, envProvider, options)
      c3 == IF Truthy(Get(options, "model")) THEN updateConfig(c2, [model |-> options["model"]]) ELSE c2
      c4 == IF GetNum(options, "temperature") # NoNum
            THEN updateConfig(c3, [temperature |-> options["temperature"]]) ELSE c3
      c5 == IF GetNum(options, "maxTokens") # NoNum
            THEN updateConfig(c4, [maxTokens |-> options["maxTokens"]]) ELSE c4
      p == Get(options, "provider")
  IN IF ~Truthy(Get(options, "endpoint")) THEN c5
     ELSE CASE p = "openai" -> updateConfig(c5, [openaiEndpoint |-> options["endpoint"]])
            [] p = "anthropic" -> updateConfig(c5, [anthropicEndpoint |-> options["endpoint"]])
            [] p = "gemini" -> updateConfig(c5, [geminiEndpoint |-> options["endpoint"]])
            [] p = "custom" -> updateConfig(c5, [customEndpoint |-> options["endpoint"]])
            [] OTHER -> updateConfig(c5, [localEndpoint |-> options["endpoint"]])

restoreConfig_providerOnly(cfg, originalConfig) ==
  updateConfig(cfg, [provider |-> originalConfig["provider"]])

\* the finally block: factory.updateConfig(originalConfig)
restoreConfig(cfg, originalConfig) == updateConfig(cfg, originalConfig)

\* the outer catch: throw new Error(`Error querying LLM: ${error}`)
queryError(e) == Err("Error", <<"Error", "querying", "LLM", ":", "Error", ":">> \o e.message, NoNum)

----------------------------------------------------------------------------
(* Bounds and input sets *)

MaxTextLen == 2
MaxBlocks == 2
NumCalls == 2
MaxWrites == 2

CallIds == 1..NumCalls

EnvVars ==
  {"LLM_PROVIDER", "LLM_MODEL", "LLM_TEMPERATURE", "LLM_MAX_TOKENS",
   "OPENAI_API_KEY", "OPENAI_ENDPOINT", "OPENAI_DEFAULT_MODEL",
   "ANTHROPIC_API_KEY", "ANTHROPIC_ENDPOINT", "ANTHROPIC_DEFAULT_MODEL",
   "GEMINI_API_KEY", "GEMINI_ENDPOINT", "GEMINI_DEFAULT_MODEL",
   "LOCAL_LLM_ENDPOINT", "LOCAL_LLM_MODEL",
   "CUSTOM_PROVIDER_NAME", "CUSTOM_API_KEY", "CUSTOM_ENDPOINT", "CUSTOM_DEFAULT_MODEL"}

BlankEnv == [v \in EnvVars |-> Undefined]

\* every provider fully configured
FullEnv ==
  Spread(BlankEnv,
    [OPENAI_API_KEY |-> "sk-openai", OPENAI_ENDPOINT |-> "https://openai.proxy/v1/completions",
     OPENAI_DEFAULT_MODEL |-> "davinci-002",
     ANTHROPIC_API_KEY |-> "sk-ant", ANTHROPIC_ENDPOINT |-> "https://anthropic.proxy/v1/messages",
     ANTHROPIC_DEFAULT_MODEL |-> "claude-3-haiku",
     GEMINI_API_KEY |-> "g-key", GEMINI_ENDPOINT |-> "https://gemini.proxy/v1",
     GEMINI_DEFAULT_MODEL |-> "gemini-pro",
     LOCAL_LLM_ENDPOINT |-> "http://localhost:11434/v1/completions", LOCAL_LLM_MODEL |-> "qwen2",
     CUSTOM_PROVIDER_NAME |-> "Acme", CUSTOM_API_KEY |-> "c-key",
     CUSTOM_ENDPOINT |-> "https://acme.example/v1/completions", CUSTOM_DEFAULT_MODEL |-> "mistral-7b"])

\* the settings of one provider, in every combination of set, empty and unset
ProviderSettings(keys) ==
  [OPENAI_API_KEY : keys, OPENAI_ENDPOINT : {Undefined, "https://openai.proxy/v1/completions"},
   OPENAI_DEFAULT_MODEL : {Undefined, "davinci-002"}]
  \cup [ANTHROPIC_API_KEY : keys, ANTHROPIC_ENDPOINT : {Undefined, "https://anthropic.proxy/v1/messages"},
        ANTHROPIC_DEFAULT_MODEL : {Undefined, "claude-3-haiku"}]
  \cup [GEMINI_API_KEY : keys, GEMINI_ENDPOINT : {Undefined, "https://gemini.proxy/v1"},
        GEMINI_DEFAULT_MODEL : {Undefined, "gemini-pro"}]
  \cup [CUSTOM_API_KEY : keys, CUSTOM_ENDPOINT : {Undefined, "https://acme.example/v1/completions"},
        CUSTOM_DEFAULT_MODEL : {Undefined, "mistral-7b"}, CUSTOM_PROVIDER_NAME : {Undefined, "Acme"}]
  \cup [LOCAL_LLM_ENDPOINT : {Undefined, "http://localhost:11434/v1/completions"},
        LOCAL_LLM_MODEL : {Undefined, "qwen2"}]

\* the provider and the model in every combination; temperature and token limit both unset or both set
GlobalSettings ==
  {Spread(g, n) :
     g \in [LLM_PROVIDER : {Undefined} \cup Providers, LLM_MODEL : {Undefined, "gpt-4o"}],
     n \in {[LLM_TEMPERATURE |-> Undefined, LLM_MAX_TOKENS |-> Undefined],
            [LLM_TEMPERATURE |-> "0.7", LLM_MAX_TOKENS |-> "100"]}}

\* environments: the global settings in every combination; one provider's settings in
\* every combination while the other providers are all configured or all unconfigured
Environments ==
  {Spread(Spread(base, g), s) :
     base \in {FullEnv, BlankEnv}, g \in GlobalSettings, s \in ProviderSettings({Undefined, "", "sk-key"})}

\* environments of the queryLLM specification: no global provider and model or both set;
\* every provider configured, or the anthropic key, the custom endpoint or the local
\* model missing
QueryEnvironments ==
  {Spread(Spread(FullEnv, g), s) :
     g \in {[LLM_PROVIDER |-> Undefined, LLM_MODEL |-> Undefined],
            [LLM_PROVIDER |-> "anthropic", LLM_MODEL |-> "gpt-4o"]},
     s \in {EmptyObj, [ANTHROPIC_API_KEY |-> Undefined], [CUSTOM_ENDPOINT |-> ""],
            [LOCAL_LLM_MODEL |-> Undefined]}}

\* environments of the factory-lifecycle specification
FactoryEnvironments ==
  {BlankEnv, FullEnv,
   Spread(FullEnv, [LLM_PROVIDER |-> "anthropic", LLM_MODEL |-> "gpt-4o", ANTHROPIC_API_KEY |-> ""])}

\* what a caller writes into an object getConfig returned
ReturnedWrites == {[provider |-> "gemini"], [model |-> "GPT-4"]}

\* environments of the provider test run: all providers configured, one or two not, none
RunEnvironments ==
  {FullEnv, BlankEnv,
   Spread(FullEnv, [GEMINI_API_KEY |-> Undefined]),
   Spread(FullEnv, [OPENAI_API_KEY |-> "", CUSTOM_ENDPOINT |-> Undefined]),
   Spread(FullEnv, [LOCAL_LLM_ENDPOINT |-> Undefined, LLM_PROVIDER |-> "openai"])}

\* the default list of providers to test
AllProviders == <<"local", "openai", "anthropic", "gemini", "custom">>

\* options.providers of the test run: not given, or a list in the caller's order
RequestedProviders == {<<>>, <<"gemini", "openai">>, <<"custom", "anthropic", "local">>, <<"anthropic">>}

\* the partial configurations callers pass to updateConfig
ConfigUpdates == {[provider |-> "openai"], [provider |-> "local"]}

\* the overrides callers pass to createClient: a provider, a model (possibly an
\* explicit undefined, as new-ai-script.ts passes), both, or nothing
CreateOverrides ==
  {Spread(a, b) : a \in {EmptyObj} \cup {[provider |-> p] : p \in Providers},
                  b \in {EmptyObj, [model |-> Undefined], [model |-> "GPT-4"]}}

\* the options callers pass to queryLLM
QueryOptions ==
  {EmptyObj,
   [provider |-> "openai", model |-> "Gpt-4o-Mini", maxTokens |-> 2000, temperature |-> 5],
   [provider |-> "custom", endpoint |-> "http://10.0.0.5:8080/v1"],
   [model |-> "Gpt-4o-Mini", temperature |-> 0, maxTokens |-> 0, endpoint |-> "http://10.0.0.5:8080/v1"]}

TextChars == {"a", " ", "\n"}

\* every text of at most n characters
Texts(n) == UNION {[1..k -> TextChars] : k \in 0..n}

SeqsUpTo(S, n) == UNION {[1..k -> S] : k \in 0..n}

ChoiceObjects ==
  {EmptyObj, [message |-> EmptyObj]}
  \cup {[text |-> x] : x \in Texts(MaxTextLen)}
  \cup {[message |-> [content |-> x]] : x \in Texts(MaxTextLen)}
  \cup {[text |-> x, message |-> [content |-> <<"b">>]] : x \in Texts(1)}

ChoicesBodies ==
  {JsonObject([choices |-> <<>>])}
  \cup {JsonObject([choices |-> <<ch>>]) : ch \in ChoiceObjects}
  \cup {JsonObject([choices |-> <<ch, [text |-> <<"z">>, message |-> [content |-> <<"z">>]]>>,
                    usage |-> [totalTokens |-> 9]]) : ch \in ChoiceObjects}

ContentBlocks ==
  {[type |-> "text", text |-> x] : x \in Texts(1)} \cup {[type |-> "tool_use"], [type |-> "text"]}

ContentBodies == {JsonObject([content |-> bs]) : bs \in SeqsUpTo(ContentBlocks, MaxBlocks)}

Parts == {[text |-> x] : x \in Texts(1)} \cup {[inlineData |-> "png"]}

CandidateBodies ==
  {JsonObject([candidates |-> <<[content |-> [parts |-> ps]]>>]) : ps \in SeqsUpTo(Parts, MaxBlocks)}
  \cup {JsonObject([candidates |-> <<[content |-> [parts |-> <<[text |-> <<"a">>]>>]]>>, usageMetadata |-> um]) :
          um \in {EmptyObj, [promptTokenCount |-> 3], [candidatesTokenCount |-> 4],
                  [promptTokenCount |-> 3, candidatesTokenCount |-> 4],
                  [promptTokenCount |-> 0, candidatesTokenCount |-> 4, totalTokenCount |-> 9]}}
  \cup {JsonObject([candidates |-> <<>>]), JsonObject([candidates |-> <<EmptyObj>>]),
        JsonObject([candidates |-> <<[content |-> EmptyObj]>>])}

ErrorBodies ==
  {JsonObject([error |-> [message |-> "quota-exceeded"]]),
   JsonObject([error |-> [message |-> "rate-limited", status |-> 429]]),
   JsonObject([error |-> EmptyObj]),
   JsonObject([error |-> [message |-> "deprecated"], choices |-> <<[text |-> <<"a">>]>>])}

Bodies ==
  {NotJson, EmptyBody, JsonNull, JsonObject(EmptyObj)}
  \cup ChoicesBodies \cup ContentBodies \cup CandidateBodies \cup ErrorBodies

Statuses == {200, 400, 503}

Transports == {NoResponse} \cup {Response(st, b) : st \in Statuses, b \in Bodies}

\* the responses the queryLLM specification distinguishes: no response, and a
\* success payload every client can read
QueryTransports ==
  {NoResponse,
   Response(200, JsonObject([choices |-> <<[text |-> <<"a">>, message |-> [content |-> <<"a">>]]>>,
                             content |-> <<[type |-> "text", text |-> <<"a">>]>>,
                             candidates |-> <<[content |-> [parts |-> <<[text |-> <<"a">>]>>]]>>]))}

\* per-call overrides of getCompletion
CallOverrides ==
  {EmptyObj, [maxTokens |-> 200], [apiKey |-> ""], [model |-> "GPT-4", endpoint |-> Undefined]}

\* the options objects clients are constructed with: what createClient passes
\* (every key present, unset values undefined) and direct construction with keys left out
OptionsFor(models, endpoints) ==
  {Spread(Spread([temperature |-> NoNum, maxTokens |-> NoNum], m), e) :
     m \in {EmptyObj, [model |-> Undefined]} \cup {[model |-> x] : x \in models},
     e \in {EmptyObj, [endpoint |-> Undefined]} \cup {[endpoint |-> x] : x \in endpoints}}

OpenAITestModels ==
  {"gpt-4", "gpt-4-turbo", "gpt-4o", "gpt-3.5-turbo", "gpt-3.5-turbo-instruct", "GPT-4", "Gpt-4o-Mini",
   "davinci-002", "text-davinci-003", "gpt-35-turbo", "ft:gpt-4:acme", "gpt-4o-2024"}

ConstructedClients ==
  {OpenAILLMClient(Spread(o, [apiKey |-> "sk-openai"])) :
     o \in OptionsFor(OpenAITestModels, {"https://openai.proxy/v1/completions"})}
  \cup {AnthropicLLMClient(Spread(o, [apiKey |-> "sk-ant"])) :
     o \in OptionsFor({"claude-3-haiku"}, {"https://anthropic.proxy/v1/messages"})}
  \cup {GeminiLLMClient(Spread(o, [apiKey |-> "g-key"])) :
     o \in OptionsFor({"gemini-pro"}, {"https://gemini.proxy/v1"})}
  \cup {CustomLLMClient(Spread(o, [apiKey |-> "c-key", endpoint |-> "https://acme.example/v1/completions"]), n) :
     o \in OptionsFor({"mistral-7b"}, {}), n \in {Undefined, "Acme"}}
  \cup {LocalLLMClient(o) : o \in OptionsFor({"qwen2"}, {"http://localhost:11434/v1/completions"})}

----------------------------------------------------------------------------
(* State *)

NoCreate == [kind |-> "none"]
NoClient == [kind |-> "none"]
Ready == [pc |-> "ready"]
IdleRun == [pc |-> "idle"]
NotRequested == [pc |-> "idle"]
NotGenerating == [pc |-> "idle", commits |-> <<>>]
NoHeld == [kind |-> "none"]
NothingHeld == [cfg |-> NoHeld, cl |-> NoHeld]
IdleFrame == [pc |-> "idle"]
ReturnedFrame == [pc |-> "returned"]

Idle(c) == calls[c].pc = "idle"

\* a frame in flight records that something else touched the shared configuration
InFlight(frame) == frame.pc \in {"awaiting", "settled"}
Disturbed(frame) == IF InFlight(frame) THEN [frame EXCEPT !.alone = FALSE] ELSE frame

\* this.config = { ... } assigns a new object: a kept object is no longer this.config
Replaced(h) == IF h.cfg.kind = "held" THEN [h EXCEPT !.cfg.same = FALSE] ELSE h

\* return new XLLMClient(...): a kept client is not the object the call returns
NewlyBuilt(h) == IF h.cl.kind = "held" THEN [h EXCEPT !.cl.same = FALSE] ELSE h

\* Factory-level start: nothing has called getInstance yet
InitFactoryVars ==
  /\ instance = FALSE
  /\ loads = 0
  /\ config = DefaultConfig
  /\ cc = NoCreate
  /\ calls = [c \in CallIds |-> IdleFrame]
  /\ client = NoClient
  /\ rev = "curl"
  /\ gc = Ready
  /\ held = NothingHeld
  /\ run = IdleRun
  /\ request = NotRequested
  /\ gen = NotGenerating

Init == env \in Environments /\ InitFactoryVars

InitFactory == env \in FactoryEnvironments /\ InitFactoryVars

InitRun == env \in RunEnvironments /\ InitFactoryVars

InitHttp == env = BlankEnv /\ InitFactoryVars

InitCommit == env = BlankEnv /\ InitFactoryVars

InitQuery == env \in QueryEnvironments /\ InitFactoryVars

InitClient ==
  /\ env = BlankEnv
  /\ instance = FALSE
  /\ loads = 0
  /\ config = DefaultConfig
  /\ cc = NoCreate
  /\ calls = [c \in CallIds |-> IdleFrame]
  /\ client \in ConstructedClients
  /\ rev \in Revisions(client.impl)
  /\ gc = Ready
  /\ held = NothingHeld
  /\ run = IdleRun
  /\ request = NotRequested
  /\ gen = NotGenerating

----------------------------------------------------------------------------
(* Actions *)

\* LLMClientFactory.getInstance(), first call: construct the singleton and load the configuration
GetInstance ==
  /\ instance' = TRUE
  /\ loads' = getInstance(instance, config, loads, env).loads
  /\ config' = getInstance(instance, config, loads, env).config
  /\ held' = IF loads' # loads THEN Replaced(held) ELSE held
  /\ UNCHANGED <<env, cc, calls, client, rev, gc, run, request, gen>>

\* factory.updateConfig(newConfig)
UpdateConfig ==
  /\ instance
  /\ \E newConfig \in ConfigUpdates : config' = updateConfig(config, newConfig)
  /\ calls' = [d \in CallIds |-> Disturbed(calls[d])]
  /\ held' = Replaced(held)
  /\ UNCHANGED <<env, instance, loads, cc, client, rev, gc, run, request, gen>>

\* factory.createClient(overrideConfig)
CreateClient ==
  /\ instance
  /\ \E overrideConfig \in CreateOverrides :
       /\ cc' = [kind |-> "called", before |-> config, overrides |-> overrideConfig,
                 out |-> createClient(config, overrideConfig), requests |-> <<>>,
                 after |-> sharedAfterCreate(config, overrideConfig)]
       /\ config' = sharedAfterCreate(config, overrideConfig)
  /\ held' = NewlyBuilt(held)
  /\ UNCHANGED <<env, instance, loads, calls, client, rev, gc, run, request, gen>>

\* queryLLM(prompt, options) up to its await: getInstance, snapshot, overrides, createClient
QueryStart(c) ==
  /\ Idle(c)
  /\ \E options \in QueryOptions :
       LET cfg0 == getInstanceConfig
           originalConfig == Spread(EmptyObj, getConfig(cfg0).value)
           cfg1 == applyOptions(cfg0, env["LLM_PROVIDER"], options)
           built == createClient(cfg1, EmptyObj)
           alone == \A d \in CallIds \ {c} : ~InFlight(calls[d])
           suspended == {d \in CallIds : calls[d].pc = "awaiting"}
           updated == \/ Truthy(env["LLM_PROVIDER"]) \/ Truthy(Get(options, "provider"))
                      \/ Truthy(Get(options, "model")) \/ Truthy(Get(options, "endpoint"))
                      \/ GetNum(options, "temperature") # NoNum \/ GetNum(options, "maxTokens") # NoNum
                      \/ built.kind = "throw"
           others == [d \in CallIds |-> Disturbed(calls[d])]
       IN /\ IF built.kind = "throw"
             THEN /\ config' = restoreConfig(cfg1, originalConfig)
                  /\ calls' = [others EXCEPT ![c] =
                       [pc |-> "settled", alone |-> alone, suspended |-> suspended,
                        options |-> options, before |-> cfg0,
                        originalConfig |-> originalConfig,
                        client |-> NoClient, requests |-> <<>>, out |-> queryError(built)]]
             ELSE /\ config' = sharedAfterCreate(cfg1, EmptyObj)
                  /\ calls' = [others EXCEPT ![c] =
                       [pc |-> "awaiting", alone |-> alone, suspended |-> suspended,
                        options |-> options, before |-> cfg0,
                        originalConfig |-> originalConfig, client |-> built]]
          /\ held' = NewlyBuilt(IF updated \/ ~instance THEN Replaced(held) ELSE held)
  /\ instance' = TRUE
  /\ loads' = getInstance(instance, config, loads, env).loads
  /\ UNCHANGED <<env, cc, client, rev, gc, run, request, gen>>

\* the awaited getCompletion settles; the finally block restores the configuration
QueryResume(c) ==
  /\ calls[c].pc = "awaiting"
  /\ \E r \in Revisions(calls[c].client.impl), t \in QueryTransports :
       LET g == getCompletion(calls[c].client, r, EmptyObj, t)
       IN calls' = [calls EXCEPT ![c] =
            [pc |-> "settled", alone |-> calls[c].alone, suspended |-> calls[c].suspended,
             options |-> calls[c].options,
             before |-> calls[c].before,
             originalConfig |-> calls[c].originalConfig, client |-> calls[c].client,
             requests |-> g.requests,
             out |-> IF g.out.kind = "throw" THEN queryError(g.out) ELSE g.out]]
  /\ config' = restoreConfig(config, calls[c].originalConfig)
  /\ held' = Replaced(held)
  /\ UNCHANGED <<env, instance, loads, cc, client, rev, gc, run, request, gen>>

\* the caller takes the settled promise
QueryReturn(c) ==
  /\ calls[c].pc = "settled"
  /\ calls' = [calls EXCEPT ![c] = ReturnedFrame]
  /\ UNCHANGED <<env, instance, loads, config, cc, client, rev, gc, held, run, request, gen>>

\* client.getCompletion(prompt, overrideOptions) against one transport outcome
GetCompletion ==
  /\ gc.pc = "ready"
  /\ \E overrideOptions \in CallOverrides, t \in Transports :
       LET g == getCompletion(client, rev, overrideOptions, t)
       IN gc' = [pc |-> "done", overrides |-> overrideOptions,
                 options |-> Spread(client.options, overrideOptions),
                 t |-> t, out |-> g.out, requests |-> g.requests, parsedAs |-> g.parsedAs,
                 left |-> tempFilesLeft(client, rev, t)]
  /\ UNCHANGED <<env, instance, loads, config, cc, calls, client, rev, held, run, request, gen>>

\* the caller is done with the result
Finish ==
  /\ gc.pc = "done"
  /\ gc' = Ready
  /\ UNCHANGED <<env, instance, loads, config, cc, calls, client, rev, held, run, request, gen>>

\* const kept = factory.getConfig()
GetConfig ==
  /\ instance
  /\ held' = [held EXCEPT !.cfg = [kind |-> "held", value |-> getConfig(config).value,
                                   same |-> getConfig(config).same, writes |-> 0]]
  /\ UNCHANGED <<env, instance, loads, config, cc, calls, client, rev, gc, run, request, gen>>

\* kept.k = v on an object getConfig returned: a write to this.config when it is that object
WriteReturned ==
  /\ held.cfg.kind = "held"
  /\ held.cfg.writes < MaxWrites
  /\ \E w \in ReturnedWrites :
       /\ held' = [held EXCEPT !.cfg.value = Spread(@, w), !.cfg.writes = @ + 1]
       /\ config' = IF held.cfg.same THEN Spread(config, w) ELSE config
  /\ UNCHANGED <<env, instance, loads, cc, calls, client, rev, gc, run, request, gen>>

\* the caller keeps the client the last createClient call returned
KeepClient ==
  /\ cc.kind = "called" /\ cc.out.kind = "client"
  /\ held' = [held EXCEPT !.cl = [kind |-> "held", value |-> cc.out, same |-> TRUE]]
  /\ UNCHANGED <<env, instance, loads, config, cc, calls, client, rev, gc, run, request, gen>>

\* main of the provider test: getInstance, the list of providers to test, and the
\* filter that keeps the configured ones; an empty list ends the process
RunStart ==
  /\ run.pc = "idle"
  /\ \E requested \in RequestedProviders :
       LET cfg == getInstance(instance, config, loads, env).config
           providersToTest == IF Len(requested) > 0 THEN requested ELSE AllProviders
           configuredProviders == SelectSeq(providersToTest, LAMBDA p : isProviderConfigured(getConfig(cfg).value, p))
       IN run' = IF Len(configuredProviders) = 0
                 THEN [pc |-> "exit", providers |-> configuredProviders]
                 ELSE [pc |-> "running", providers |-> configuredProviders, started |-> 0,
                       clients |-> <<>>, peers |-> <<>>, outstanding |-> {}, results |-> <<>>]
  /\ instance' = TRUE
  /\ loads' = getInstance(instance, config, loads, env).loads
  /\ config' = getInstance(instance, config, loads, env).config
  /\ held' = IF loads' # loads THEN Replaced(held) ELSE held
  /\ UNCHANGED <<env, cc, calls, client, rev, gc, request, gen>>

\* the loop takes the next provider and testProvider runs up to its await:
\* createClient({ provider }), then the getCompletion request is issued
TestStart ==
  /\ run.pc = "running"
  /\ run.started < Len(run.providers)
  /\ loopMayProceed(run.outstanding)
  /\ LET k == run.started + 1
         built == createClient(config, [provider |-> run.providers[k]])
     IN run' = IF built.kind = "throw"
               THEN pushResult([run EXCEPT !.started = k, !.clients = Append(@, built),
                                           !.peers = Append(@, NoPeer)],
                               testResult(run.providers[k], built))
               ELSE [run EXCEPT !.started = k, !.clients = Append(@, built),
                                !.outstanding = @ \cup {k}]
  /\ held' = NewlyBuilt(held)
  /\ UNCHANGED <<env, instance, loads, config, cc, calls, client, rev, gc, request, gen>>

\* the awaited getCompletion of test k settles and testProvider returns its result
TestSettle ==
  /\ run.pc = "running"
  /\ \E k \in run.outstanding : \E r \in Revisions(run.clients[k].impl), t \in QueryTransports :
       LET g == getCompletion(run.clients[k], r, [maxTokens |-> TEST_MAX_TOKENS], t)
       IN run' = pushResult([run EXCEPT !.outstanding = @ \ {k},
                                        !.peers = Append(@, [rev |-> r, transport |-> t])],
                            testResult(run.providers[k], g.out))
  /\ UNCHANGED <<env, instance, loads, config, cc, calls, client, rev, gc, held, request, gen>>

\* the loop has ended: the summary is printed and the results are saved
RunFinish ==
  /\ run.pc = "running"
  /\ run.started = Len(run.providers)
  /\ run.outstanding = {}
  /\ run' = [run EXCEPT !.pc = "done"]
  /\ UNCHANGED <<env, instance, loads, config, cc, calls, client, rev, gc, held, request, gen>>

\* HttpClient.request(method, url, data, options): the promise executor runs to
\* clientRequest.end(); the peer's behaviour is fixed with the call
HttpRequest ==
  /\ request.pc = "idle"
  /\ \E method \in HttpMethods, url \in HttpUrls, data \in HttpData,
        options \in HttpOptions, server \in Servers :
       request' = IF ~url.valid
                  THEN [Issued(method, url, data, options, server) EXCEPT
                          !.phase = "none", !.promise = "rejected", !.reason = "invalid url"]
                  ELSE Issued(method, url, data, options, server)
  /\ UNCHANGED <<env, instance, loads, config, cc, calls, client, rev, gc, held, run, gen>>

\* a socket is assigned to the request and connects; its idle timer is armed
Connect ==
  /\ request.pc = "called"
  /\ request.phase = "connecting"
  /\ request.server # "refuses"
  /\ request' = [request EXCEPT !.phase = "waiting", !.idle = 0]
  /\ UNCHANGED <<env, instance, loads, config, cc, calls, client, rev, gc, held, run, gen>>

\* clientRequest emits 'error': the listener rejects the promise
RequestError ==
  /\ request.pc = "called"
  /\ request.phase = "connecting"
  /\ request.server = "refuses"
  /\ request' = [request EXCEPT !.phase = "failed",
                                 !.promise = settle(@, "rejected"),
                                 !.reason = IF request.promise = "pending" THEN "error" ELSE @]
  /\ UNCHANGED <<env, instance, loads, config, cc, calls, client, rev, gc, held, run, gen>>

\* the response callback runs: status line and headers have arrived
ResponseHead ==
  /\ request.pc = "called"
  /\ request.phase = "waiting"
  /\ request.server \in {"answers", "stalls"}
  /\ \E statusCode \in StatusCodes :
       request' = [request EXCEPT !.phase = "receiving", !.statusCode = statusCode, !.idle = 0]
  /\ UNCHANGED <<env, instance, loads, config, cc, calls, client, rev, gc, held, run, gen>>

\* response 'data': the chunk is pushed
ResponseData ==
  /\ request.pc = "called"
  /\ request.phase = "receiving"
  /\ request.server = "answers"
  /\ Len(request.chunks) < MaxChunks
  /\ \E chunk \in Chunks :
       request' = [request EXCEPT !.chunks = Append(@, chunk), !.idle = 0]
  /\ UNCHANGED <<env, instance, loads, config, cc, calls, client, rev, gc, held, run, gen>>

\* response 'end': the promise resolves with status, headers and the joined chunks
ResponseEnd ==
  /\ request.pc = "called"
  /\ request.phase = "receiving"
  /\ request.server = "answers"
  /\ request' = [request EXCEPT !.phase = "ended",
                                 !.promise = settle(@, "resolved"),
                                 !.value = IF request.promise = "pending"
                                           THEN [status |-> OrZero(request.statusCode),
                                                 data |-> request.chunks]
                                           ELSE @]
  /\ UNCHANGED <<env, instance, loads, config, cc, calls, client, rev, gc, held, run, gen>>

\* the connected socket stays idle for another TickMs
Tick ==
  /\ request.pc = "called"
  /\ request.phase \in {"waiting", "receiving"}
  /\ request.idle < request.timeout
  /\ request' = [request EXCEPT !.idle = @ + TickMs]
  /\ UNCHANGED <<env, instance, loads, config, cc, calls, client, rev, gc, held, run, gen>>

\* the socket has been idle for requestOptions.timeout: clientRequest emits
\* 'timeout' and the listeners registered for it run
SocketTimeout ==
  /\ request.pc = "called"
  /\ request.phase \in {"waiting", "receiving"}
  /\ request.idle >= request.timeout
  /\ ~request.timedOut
  /\ request' = onTimeout([request EXCEPT !.timedOut = TRUE])
  /\ UNCHANGED <<env, instance, loads, config, cc, calls, client, rev, gc, held, run, gen>>

\* main up to the prompt: the staged diff is read and truncated; without staged
\* changes the process exits
ReadDiff ==
  /\ gen.pc = "idle"
  /\ \E revision \in GeneratorRevisions, diff \in DiffTexts, limit \in DiffLimits :
       LET gitDiff == truncateText(trim(diff), limit)
       IN gen' = [pc |-> IF gitDiff = <<>> THEN "ended" ELSE "diffed", revision |-> revision,
                  diff |-> trim(diff), limit |-> limit, gitDiff |-> gitDiff,
                  code |-> IF gitDiff = <<>> THEN 1 ELSE 0, commits |-> <<>>]
  /\ UNCHANGED <<env, instance, loads, config, cc, calls, client, rev, gc, held, run, request>>

\* the awaited queryLLM settles: the processed message is printed, or the catch
\* block exits
Generate ==
  /\ gen.pc = "diffed"
  /\ \/ \E message \in Messages : gen' = Asking(gen.revision, message)
     \/ gen' = [pc |-> "ended", revision |-> gen.revision, code |-> 1, commits |-> <<>>]
  /\ UNCHANGED <<env, instance, loads, config, cc, calls, client, rev, gc, held, run, request>>

\* the answer to 'What would you like to do?'
AnswerAction ==
  /\ gen.pc = "asking"
  /\ \E action \in Answers, gitOk \in BOOLEAN :
       LET g == [gen EXCEPT !.action = action]
       IN gen' = IF answered(action, <<"e">>) THEN [g EXCEPT !.pc = "editing"]
                 ELSE IF answered(action, <<"c">>) THEN Ended(g, 0)
                 ELSE IF ~answered(action, <<"u">>) THEN Ended(g, 0)
                 ELSE commit(g, gitOk)
  /\ UNCHANGED <<env, instance, loads, config, cc, calls, client, rev, gc, held, run, request>>

\* the editor process exits: with code 0 the saved text replaces the message and
\* is shown; otherwise editInEditor rejects and the catch block asks to continue
EditorExit ==
  /\ gen.pc = "editing"
  /\ \/ \E editedText \in EditedMessages :
          gen' = [gen EXCEPT !.pc = "confirming", !.editor = "saved", !.message = editedText]
     \/ gen' = [gen EXCEPT !.pc = "confirming", !.editor = "failed"]
  /\ UNCHANGED <<env, instance, loads, config, cc, calls, client, rev, gc, held, run, request>>

\* the answer to 'Use this edited commit message?' or 'Continue with original message?'
AnswerConfirm ==
  /\ gen.pc = "confirming"
  /\ \E answer \in Answers, gitOk \in BOOLEAN :
       LET g == [gen EXCEPT !.confirm = answer]
       IN gen' = IF ~answered(answer, <<"y">>) THEN Ended(g, 0) ELSE commit(g, gitOk)
  /\ UNCHANGED <<env, instance, loads, config, cc, calls, client, rev, gc, held, run, request>>

Next == GetInstance \/ UpdateConfig \/ CreateClient

NextCommit == ReadDiff \/ Generate \/ AnswerAction \/ EditorExit \/ AnswerConfirm

NextHttp ==
  \/ HttpRequest \/ Connect \/ RequestError \/ ResponseHead
  \/ ResponseData \/ ResponseEnd \/ Tick \/ SocketTimeout

NextRun == RunStart \/ TestStart \/ TestSettle \/ RunFinish

NextFactory == GetInstance \/ GetConfig \/ WriteReturned \/ UpdateConfig \/ CreateClient \/ KeepClient

NextQuery ==
  \/ GetInstance
  \/ \E c \in CallIds : QueryStart(c)
  \/ \E c \in CallIds : QueryResume(c)
  \/ \E c \in CallIds : QueryReturn(c)

NextClient == GetCompletion \/ Finish

Spec == Init /\ [][Next]_vars

SpecFactory == InitFactory /\ [][NextFactory]_vars

SpecRun == InitRun /\ [][NextRun]_vars

SpecHttp == InitHttp /\ [][NextHttp]_vars

SpecCommit == InitCommit /\ [][NextCommit]_vars

\* the event loop runs every pending callback and timer, and the peer does what
\* its behaviour allows
SpecHttpLive == SpecHttp /\ WF_vars(NextHttp)

SpecQuery == InitQuery /\ [][NextQuery]_vars

SpecClient == InitClient /\ [][NextClient]_vars

----------------------------------------------------------------------------
(* Properties of the factory: Spec *)

\* the configuration createClient works on in the recorded call
MergedConfig == Spread(cc.before, cc.overrides)

KeyMissing(m) ==
  CASE Get(m, "provider") = "openai" -> ~Truthy(Get(m, "openaiApiKey"))
    [] Get(m, "provider") = "anthropic" -> ~Truthy(Get(m, "anthropicApiKey"))
    [] Get(m, "provider") = "gemini" -> ~Truthy(Get(m, "geminiApiKey"))
    [] Get(m, "provider") = "custom" -> ~Truthy(Get(m, "customApiKey"))
    [] OTHER -> FALSE

EndpointMissing(m) == Get(m, "provider") = "custom" /\ ~Truthy(Get(m, "customEndpoint"))

\* the words by which a message names the provider's API key
KeyWords(provider) ==
  CASE provider = "openai" -> <<"OpenAI", "API", "key">>
    [] provider = "anthropic" -> <<"Anthropic", "API", "key">>
    [] provider = "gemini" -> <<"Google", "API", "key">>
    [] provider = "custom" -> <<"API", "key", "is", "required", "for", "custom">>

NamesMissingField(msg, m) ==
  \/ KeyMissing(m) /\ includes(msg, KeyWords(Get(m, "provider")))
  \/ EndpointMissing(m) /\ includes(msg, <<"Endpoint", "is", "required", "for", "custom">>)

\* C1: createClient on a merged configuration whose provider is openai, anthropic,
\* gemini or custom and whose credential (API key; for custom also the endpoint) is
\* missing or empty throws an error that names a missing field, returns no client and
\* has issued no transport request.
C1_MissingCredentialThrows ==
  (cc.kind = "called" /\ (KeyMissing(MergedConfig) \/ EndpointMissing(MergedConfig)))
    => /\ cc.out.kind = "throw"
       /\ NamesMissingField(cc.out.message, MergedConfig)
       /\ cc.requests = <<>>

\* an override selects anthropic, whose key is the empty string, and the call has thrown
C1_Witness ==
  /\ cc.kind = "called"
  /\ Get(cc.before, "provider") # "anthropic"
  /\ Get(cc.overrides, "provider") = "anthropic"
  /\ Get(cc.before, "anthropicApiKey") = ""
  /\ cc.out.kind = "throw"

ProviderDefaultModel(cfg, provider) ==
  CASE provider = "openai" -> Get(cfg, "openaiDefaultModel")
    [] provider = "anthropic" -> Get(cfg, "anthropicDefaultModel")
    [] provider = "gemini" -> Get(cfg, "geminiDefaultModel")
    [] provider = "custom" -> Get(cfg, "customDefaultModel")
    [] OTHER -> Get(cfg, "localModel")

\* C2: the model of the client createClient(overrides) returns is overrides.model when
\* one is given, otherwise the shared global model when one is set, otherwise the
\* selected provider's default-model setting.
C2_ModelPrecedence ==
  (cc.kind = "called" /\ cc.out.kind = "client")
    => Get(cc.out.options, "model") =
         IF Truthy(Get(cc.overrides, "model")) THEN cc.overrides["model"]
         ELSE IF Truthy(Get(cc.before, "model")) THEN cc.before["model"]
         ELSE ProviderDefaultModel(cc.before, Get(MergedConfig, "provider"))

----------------------------------------------------------------------------
(* Properties of queryLLM: SpecQuery *)

\* C3: once a queryLLM call that ran alone has settled, by returning or by throwing,
\* every field of the shared configuration has the value it had immediately before
\* the call.
C3_ConfigRestored ==
  \A c \in CallIds : (calls[c].pc = "settled" /\ calls[c].alone) => config = calls[c].before

\* a call whose options changed the shared configuration and whose completion failed
C3_Witness ==
  \E c \in CallIds :
    /\ calls[c].pc = "settled" /\ calls[c].alone
    /\ calls[c].client.kind = "client"
    /\ calls[c].out.kind = "throw"
    /\ Has(calls[c].options, "model") /\ Has(calls[c].options, "endpoint")
    /\ applyOptions(calls[c].before, env["LLM_PROVIDER"], calls[c].options) # calls[c].before

----------------------------------------------------------------------------
(* Properties of the provider clients: SpecClient *)

Called == gc.pc = "done"

\* the response body as a JSON object, when it is one
IsObjectBody == gc.t.net = "ok" /\ gc.t.body.kind = "object"
Payload == gc.t.body.value

\* C4: whatever the body, a response with HTTP status 400 or greater makes
\* getCompletion throw; it never returns a result.
C4_ErrorStatusThrows ==
  (Called /\ gc.requests # <<>> /\ gc.t.net = "ok" /\ gc.t.status >= 400)
    => gc.out.kind = "throw"

\* the credential or endpoint each variant requires, read from the effective options
LacksRequired(impl, options) ==
  CASE impl = "custom" -> ~Truthy(Get(options, "apiKey")) \/ ~Truthy(Get(options, "endpoint"))
    [] impl = "local" -> ~Truthy(Get(options, "endpoint"))
    [] OTHER -> ~Truthy(Get(options, "apiKey"))

\* C5: when the effective options of a getCompletion call lack the variant's required
\* credential or endpoint, isConfigured() is false and the call throws without
\* issuing a request.
C5_UnconfiguredFailsFast ==
  (Called /\ LacksRequired(client.impl, gc.options))
    => /\ ~isConfigured(client)
       /\ gc.out.kind = "throw"
       /\ gc.requests = <<>>

\* C6: when the parsed body carries an error object with a message, getCompletion
\* throws an error whose message contains that message and the client's getName().
C6_VendorErrorSurfaced ==
  (/\ Called /\ gc.requests # <<>> /\ IsObjectBody /\ gc.t.status = 200
   /\ Has(Payload, "error") /\ Truthy(Get(Payload["error"], "message")))
    => /\ gc.out.kind = "throw"
       /\ includes(gc.out.message, <<Payload["error"]["message"]>>)
       /\ includes(gc.out.message, Words(getName(client, rev)))

\* C7: getCompletion never returns a result whose text is the empty string.
C7_NeverEmptyText ==
  (Called /\ gc.out.kind = "result") => gc.out.text # <<>>

\* model || '' of the effective options
EffectiveModel == OrElse(Get(gc.options, "model"), "")

ClaimedChatSubstrings == {"gpt-4", "gpt-4-turbo", "gpt-4o", "gpt-3.5-turbo"}

\* the request went out in the chat shape to the chat endpoint
SentAsChat == gc.requests[1].shape = "chat" /\ gc.requests[1].url = OPENAI_CHAT_ENDPOINT

\* the request went out in the completions shape to the configured endpoint
SentAsCompletions ==
  gc.requests[1].shape = "completions" /\ gc.requests[1].url = Get(gc.options, "endpoint")

\* the text of a returned result was read from the field of the shape that was sent
ReadWithSentShape ==
  (gc.out.kind = "result" /\ IsObjectBody /\ Has(Payload, "choices") /\ Len(Payload["choices"]) > 0)
    => LET ch == Payload["choices"][1]
       IN IF gc.requests[1].shape = "chat"
          THEN Has(ch, "message") /\ Has(ch["message"], "content")
               /\ \E i \in 0..Len(ch["message"]["content"]) :
                    SubSeq(ch["message"]["content"], i + 1, i + Len(gc.out.text)) = gc.out.text
          ELSE Has(ch, "text")
               /\ \E i \in 0..Len(ch["text"]) : SubSeq(ch["text"], i + 1, i + Len(gc.out.text)) = gc.out.text

C9_InstructUsesCompletions ==
  (Called /\ client.impl = "openai" /\ EffectiveModel = "gpt-3.5-turbo-instruct")
    => SentAsCompletions


\* r is s without its leading and trailing white space
IsTrimOf(r, s) ==
  \E i \in 1..(Len(s) + 1), j \in 0..Len(s) :
    /\ r = SubSeq(s, i, j)
    /\ \A k \in 1..(i - 1) : s[k] \in {" ", "\n"}
    /\ \A k \in (j + 1)..Len(s) : s[k] \in {" ", "\n"}
    /\ r # <<>> => (r[1] \notin {" ", "\n"} /\ r[Len(r)] \notin {" ", "\n"})

\* the texts in order with sep between neighbours (sep = <<>>: plain concatenation)
RECURSIVE InOrder(_, _)
InOrder(texts, sep) ==
  IF Len(texts) = 0 THEN <<>>
  ELSE IF Len(texts) = 1 THEN texts[1]
  ELSE InOrder(SubSeq(texts, 1, Len(texts) - 1), sep) \o sep \o texts[Len(texts)]

FirstChoice == Payload["choices"][1]

TextBlocks == SelectSeq(Payload["content"], LAMBDA b : Has(b, "type") /\ b["type"] = "text")
BlockTexts == [i \in 1..Len(TextBlocks) |-> TextBlocks[i]["text"]]

GeminiParts == Payload["candidates"][1]["content"]["parts"]
PartsWithText == SelectSeq(GeminiParts, LAMBDA q : Has(q, "text"))
PartTexts == [i \in 1..Len(PartsWithText) |-> PartsWithText[i]["text"]]
NonEmptyPartTexts == SelectSeq(PartTexts, LAMBDA x : x # <<>>)

IsBlank(x) == \A k \in 1..Len(x) : x[k] \in {" ", "\n"}

\* a result was returned for a success response whose text blocks all carry a text
ReturnedForSuccess ==
  /\ Called /\ gc.out.kind = "result" /\ IsObjectBody /\ gc.t.status = 200
  /\ ~Has(Payload, "error")
  /\ client.impl = "anthropic" => \A i \in 1..Len(TextBlocks) : Has(TextBlocks[i], "text")

\* the variant's extraction rule as C10 states it
ExtractedAsClaimed ==
  CASE client.impl = "local" -> FirstChoice["text"]
    [] client.impl = "openai" ->
         IF gc.requests[1].shape = "chat" THEN FirstChoice["message"]["content"] ELSE FirstChoice["text"]
    [] client.impl = "custom" ->
         IF Has(FirstChoice, "text") /\ FirstChoice["text"] # <<>>
         THEN FirstChoice["text"] ELSE FirstChoice["message"]["content"]
    [] client.impl = "anthropic" -> InOrder(BlockTexts, <<>>)
    [] client.impl = "gemini" -> InOrder(PartTexts, <<>>)

ExtractedJoined ==
  CASE client.impl = "local" -> FirstChoice["text"]
    [] client.impl = "openai" ->
         IF gc.requests[1].shape = "chat" THEN FirstChoice["message"]["content"] ELSE FirstChoice["text"]
    [] client.impl = "custom" ->
         IF Has(FirstChoice, "text") /\ ~IsBlank(FirstChoice["text"])
         THEN FirstChoice["text"] ELSE FirstChoice["message"]["content"]
    [] client.impl = "anthropic" -> InOrder(BlockTexts, IF rev = "curl" THEN <<"\n">> ELSE <<>>)
    [] client.impl = "gemini" -> InOrder(NonEmptyPartTexts, <<"\n">>)

UsageMetadata == IF Has(Payload, "usageMetadata") THEN Payload["usageMetadata"] ELSE EmptyObj

\* a count of the usage metadata, 0 when it is missing
CountOrZero(k) == IF Has(UsageMetadata, k) THEN UsageMetadata[k] ELSE 0

GeminiReturned == Called /\ client.impl = "gemini" /\ gc.out.kind = "result"

\* C11: in every result the Gemini client returns, usage.promptTokens and
\* usage.completionTokens are the response's promptTokenCount and candidatesTokenCount
\* (0 when missing) and usage.totalTokens is their sum.
C11_GeminiTotalIsSum ==
  GeminiReturned
    => /\ gc.out.usage["promptTokens"] = CountOrZero("promptTokenCount")
       /\ gc.out.usage["completionTokens"] = CountOrZero("candidatesTokenCount")
       /\ gc.out.usage["totalTokens"] = gc.out.usage["promptTokens"] + gc.out.usage["completionTokens"]

\* a Gemini result for a response that reports only the candidates' token count
C11_Witness ==
  /\ GeminiReturned
  /\ ~Has(UsageMetadata, "promptTokenCount")
  /\ Has(UsageMetadata, "candidatesTokenCount")
  /\ gc.out.usage["totalTokens"] = 4

----------------------------------------------------------------------------
(* Properties of the requests queryLLM's client sends: SpecQuery *)

\* call c has settled after its client handed a request to the transport
SentRequest(c) == calls[c].pc = "settled" /\ calls[c].requests # <<>>

\* C12: when neither the shared configuration nor the options of the call set a
\* temperature or a token limit, the request sent by the client createClient built
\* carries temperature 0.5 and a maximum token count of 500.
C12_DefaultSamplingSent ==
  \A c \in CallIds :
    (/\ SentRequest(c)
     /\ GetNum(calls[c].before, "temperature") = NoNum /\ GetNum(calls[c].before, "maxTokens") = NoNum
     /\ ~Has(calls[c].options, "temperature") /\ ~Has(calls[c].options, "maxTokens"))
      => /\ calls[c].requests[1].temperature = 5
         /\ calls[c].requests[1].max_tokens = 500

BuiltInModel(impl) ==
  CASE impl = "openai" -> "gpt-3.5-turbo-instruct"
    [] impl = "anthropic" -> "claude-3-sonnet-20240229"
    [] impl = "gemini" -> "gemini-1.5-flash"
    [] impl = "local" -> "llama-3.2-3b-instruct"

\* C13: when no model is set at any layer (options, shared global model, the
\* provider's default-model setting), the request of an OpenAI, Anthropic, Gemini or
\* Local client built by createClient names the provider's built-in default model.
C13_BuiltInModelSent ==
  \A c \in CallIds :
    (/\ SentRequest(c)
     /\ calls[c].client.impl \in {"openai", "anthropic", "gemini", "local"}
     /\ ~Truthy(Get(calls[c].options, "model"))
     /\ ~Truthy(Get(calls[c].before, "model"))
     /\ ~Truthy(ProviderDefaultModel(calls[c].before, calls[c].client.impl)))
      => calls[c].requests[1].model = BuiltInModel(calls[c].client.impl)

----------------------------------------------------------------------------
(* Properties of the clients the factory builds: Spec *)

CreatedClient == cc.kind = "called" /\ cc.out.kind = "client"

\* C14: every client createClient returns reports isConfigured() = true, and a local
\* client has the configured local endpoint or, when none is configured, the default
\* endpoint http://127.0.0.1:1234/v1/completions.
C14_CreatedClientConfigured ==
  CreatedClient
    => /\ isConfigured(cc.out)
       /\ cc.out.impl = "local"
            => Get(cc.out.options, "endpoint") =
                 IF Truthy(Get(MergedConfig, "localEndpoint")) THEN MergedConfig["localEndpoint"]
                 ELSE "http://127.0.0.1:1234/v1/completions"

----------------------------------------------------------------------------
(* Properties of the factory's lifecycle: SpecFactory *)

KeptConfig == held.cfg.kind = "held"
KeptClient == held.cl.kind = "held"

\* C15: a write to an object getConfig returned leaves the shared configuration
\* unchanged, and a change of the shared configuration leaves a returned object
\* unchanged.
C15_GetConfigCopies ==
  [][/\ (KeptConfig /\ held'.cfg.kind = "held" /\ held'.cfg.writes > held.cfg.writes) => config' = config
     /\ (KeptConfig /\ config' # config) => held'.cfg.value = held.cfg.value]_vars

\* a kept copy was written to and the shared configuration was updated after it was taken
C15_Witness ==
  /\ KeptConfig
  /\ held.cfg.writes > 0
  /\ Get(held.cfg.value, "provider") = "gemini"
  /\ Get(config, "provider") = "openai"
  /\ Get(loadConfig(env), "provider") = "local"

\* C16: createClient leaves the shared configuration as it was, whether it returns or
\* throws; a client kept from an earlier call keeps its value through later updateConfig
\* and createClient calls, and is not the object a later createClient call returns.
C16_CreateClientIsolated ==
  /\ [](cc.kind = "called" => cc.after = cc.before)
  /\ [][(KeptClient /\ (cc' # cc \/ config' # config))
          => /\ held'.cl.value = held.cl.value
             /\ cc' # cc => ~held'.cl.same]_vars

\* a client is kept, and a later createClient call with a provider override has thrown
C16_Witness ==
  /\ KeptClient /\ ~held.cl.same
  /\ cc.kind = "called" /\ cc.out.kind = "throw"
  /\ Has(cc.overrides, "provider") /\ cc.overrides["provider"] # Get(cc.before, "provider")
  /\ config = cc.before

\* C17: the environment is loaded exactly once, when the first getInstance constructs
\* the factory; afterwards the instance stays and the shared configuration changes
\* only by an updateConfig call, never by a reload.
C17_SingleInstanceSingleLoad ==
  /\ [](loads = IF instance THEN 1 ELSE 0)
  /\ [][instance => /\ instance'
                    /\ config' # config => \E u \in ConfigUpdates : config' = updateConfig(config, u)]_vars

\* the configuration of the one instance differs from the environment's after an update
C17_Witness ==
  /\ instance /\ loads = 1
  /\ config # loadConfig(env)
  /\ cc.kind = "called" /\ KeptConfig

----------------------------------------------------------------------------
(* Failure propagation of getCompletion: SpecClient *)

\* the one request did not yield a usable response: no response, an error status,
\* or a body that is not JSON
RequestFailed ==
  \/ gc.t.net = "fail"
  \/ gc.t.status >= 400
  \/ gc.t.body.kind \in {"notjson", "empty"}

\* C18: a getCompletion call hands at most one request to the transport, and when
\* that request fails, answers with a status of 400 or more, or answers with a body
\* that cannot be parsed, the call throws instead of returning a result.
C18_OneRequestNoSilentFailure ==
  Called
    => /\ Len(gc.requests) <= 1
       /\ (gc.requests # <<>> /\ RequestFailed) => gc.out.kind = "throw"

\* ---------------------------------------------------------------------------
\* C19

\* the tests of the run whose getCompletion request is outstanding
OutstandingTests == IF run.pc = "running" THEN run.outstanding ELSE {}

\* C19: in a multi-provider test run the providers are tested one at a time in the
\* order of the configured-provider list: while the request of a test is
\* outstanding it is the test started last and every earlier test has delivered
\* its result, results come in list order, and at most one request is outstanding.
C19_TestsStrictlySequential ==
  /\ Cardinality(OutstandingTests) <= 1
  /\ run.pc = "running" =>
       /\ \A k \in run.outstanding : k = run.started /\ Len(run.results) = k - 1
       /\ run.outstanding = {} => Len(run.results) = run.started
       /\ \A i \in 1..Len(run.results) : run.results[i].provider = run.providers[i]

\* the second provider's request is outstanding after the first test failed
C19_Witness ==
  /\ run.pc = "running"
  /\ Len(run.providers) >= 3
  /\ run.started = 2
  /\ run.outstanding = {2}
  /\ Len(run.results) = 1
  /\ ~run.results[1].success

\* ---------------------------------------------------------------------------
\* C20

\* HttpClient.request has been called and its promise is still pending
Pending == request.pc = "called" /\ request.promise = "pending"

\* the promise has resolved with a response or rejected with an error
Settled == request.pc = "called" /\ request.promise \in {"resolved", "rejected"}

\* the promise has rejected with a timeout error
TimedOutRejected ==
  request.pc = "called" /\ request.promise = "rejected" /\ request.reason = "timeout"

\* the peer accepted the connection, never answered, and the request timeout has elapsed
TimeoutElapsedUnanswered ==
  /\ Pending
  /\ request.server = "silent"
  /\ request.phase = "waiting"
  /\ request.idle >= request.timeout

\* C20: every HttpClient.request call eventually settles, and when the server never
\* answers, the call rejects with a timeout error once the request timeout
\* (options.timeout, default 30000 ms) has elapsed.
C20_RequestEventuallySettles ==
  /\ [](request.pc = "called" => <>Settled)
  /\ [](TimeoutElapsedUnanswered => <>TimedOutRejected)

\* ---------------------------------------------------------------------------
\* C24

\* what testing provider number i alone, on the configuration loaded from the
\* environment and against the same peer, results in
TestedAlone(i) ==
  LET built == createClient(loadConfig(env), [provider |-> run.providers[i]])
  IN testResult(run.providers[i],
                IF built.kind = "throw" THEN built
                ELSE getCompletion(built, run.peers[i].rev, [maxTokens |-> TEST_MAX_TOKENS],
                                   run.peers[i].transport).out)

\* C24: in a multi-provider test run a failing provider never stops the run: when
\* the run is done the result list has exactly one entry per configured provider,
\* in list order; a failed provider's entry has success = false and an error
\* message; and every entry is what testing that provider alone would give.
C24_FailureDoesNotStopRun ==
  run.pc = "done" =>
    /\ Len(run.results) = Len(run.providers)
    /\ \A i \in 1..Len(run.results) :
         /\ run.results[i].provider = run.providers[i]
         /\ ~run.results[i].success => Len(run.results[i].error) > 0
         /\ run.results[i] = TestedAlone(i)

\* a finished run of three providers whose first test failed and whose last succeeded
C24_Witness ==
  /\ run.pc = "done"
  /\ Len(run.results) = 3
  /\ ~run.results[1].success
  /\ run.results[3].success

\* ---------------------------------------------------------------------------
\* C23

\* the provider the precedence rule selects for call c
ChosenProvider(c) ==
  IF Truthy(Get(calls[c].options, "provider")) THEN calls[c].options["provider"]
  ELSE IF Truthy(env["LLM_PROVIDER"]) THEN env["LLM_PROVIDER"]
  ELSE Get(calls[c].before, "provider")

\* C23: the client a queryLLM call builds is of the provider given in
\* options.provider if any, otherwise of the LLM_PROVIDER environment variable if
\* set, otherwise of the provider in the shared configuration when the call began.
C23_ProviderPrecedence ==
  \A c \in CallIds :
    (InFlight(calls[c]) /\ calls[c].client.kind = "client") =>
      calls[c].client.impl = ChosenProvider(c)

\* all three ranks occur: options.provider beating a different LLM_PROVIDER, and
\* LLM_PROVIDER beating a different provider in the shared configuration
C23_Witness ==
  \E c, d \in CallIds :
    /\ InFlight(calls[c]) /\ calls[c].client.kind = "client"
    /\ InFlight(calls[d]) /\ calls[d].client.kind = "client"
    /\ Truthy(env["LLM_PROVIDER"])
    /\ Truthy(Get(calls[c].options, "provider")) /\ calls[c].options["provider"] # env["LLM_PROVIDER"]
    /\ ~Truthy(Get(calls[d].options, "provider"))
    /\ Get(calls[d].before, "provider") # env["LLM_PROVIDER"]

\* ---------------------------------------------------------------------------
\* C28

\* call d was started while call c, started with no other call suspended, was
\* awaiting its completion; both have settled
OverlappedAndSettled(c, d) ==
  /\ c # d
  /\ calls[c].pc = "settled" /\ calls[d].pc = "settled"
  /\ calls[c].suspended = {}
  /\ calls[d].suspended = {c}

\* C28: when two queryLLM calls overlap and both have settled, in either
\* completion order, the shared configuration equals the configuration that held
\* before the first call began.
C28_OverlapRestoresConfig ==
  \A c, d \in CallIds : OverlappedAndSettled(c, d) => config = calls[c].before

\* ---------------------------------------------------------------------------
\* C29

\* call d was started while call c, started with no other call suspended, was
\* awaiting its completion
StartedDuring(c, d) ==
  /\ c # d
  /\ InFlight(calls[c]) /\ InFlight(calls[d])
  /\ calls[c].suspended = {}
  /\ calls[d].suspended = {c}

\* what call d builds from the configuration outside any call, the environment's
\* provider and its own options
BuiltInIsolation(c, d) ==
  createClient(applyOptions(calls[c].before, env["LLM_PROVIDER"], calls[d].options), EmptyObj)

\* C29: the client a queryLLM call builds is determined by the shared configuration
\* outside any queryLLM call, the LLM_PROVIDER environment variable and the call's
\* own options only; what another call still in flight passed never appears in it.
C29_ClientIndependentOfOtherCalls ==
  \A c, d \in CallIds :
    (StartedDuring(c, d) /\ calls[d].client.kind = "client") =>
      calls[d].client = BuiltInIsolation(c, d)

\* ---------------------------------------------------------------------------
\* C30

\* call c ran with no other call in flight, passed an endpoint and sent a request
SentWithEndpoint(c) ==
  /\ SentRequest(c)
  /\ calls[c].alone
  /\ Truthy(Get(calls[c].options, "endpoint"))

\* C30: when queryLLM is called with options.endpoint set, the request of that call
\* is sent to that endpoint, whichever way the provider was selected and whichever
\* model is in effect.
C30_RequestGoesToOptionsEndpoint ==
  \A c \in CallIds :
    SentWithEndpoint(c) => calls[c].requests[1].url = calls[c].options["endpoint"]

\* ---------------------------------------------------------------------------
\* C27

\* the client under test is built on sendLLMRequest
UsesSendLLMRequest == client.impl = "custom" \/ (client.impl \in {"anthropic", "local"} /\ rev = "http")

\* the status assigned where the failure of the last call was detected
StatusWhereDetected ==
  IF gc.t.net = "fail" THEN 500
  ELSE IF gc.t.status >= 400 THEN gc.t.status
  ELSE IF ~IsObjectBody THEN 500
  ELSE IF Has(Payload, "error") THEN errorStatus(Payload["error"])
  ELSE 400

\* C27: in the clients built on sendLLMRequest, the error that reaches the caller of
\* getCompletion carries the HTTP status for a response with status >= 400, the
\* vendor error's status (or 400) for a body with an error object, 400 for a body
\* with no choices/content or with no text content, and 500 only for an
\* unparseable body or a transport failure.
C27_ErrorCarriesDetectedStatus ==
  (Called /\ UsesSendLLMRequest /\ gc.requests # <<>> /\ gc.out.kind = "throw")
    => gc.out.status = StatusWhereDetected

\* ---------------------------------------------------------------------------
(* Properties of the commit-message generator: SpecCommit *)

\* truncateText has been applied to the staged diff
Truncated == gen.pc \in {"diffed", "ended"} /\ "gitDiff" \in DOMAIN gen

\* C22: for every text and every maxLength, truncateText(text, maxLength) returns a
\* string whose length is at most maxLength, and returns the text unchanged when
\* its length is at most maxLength.
C22_TruncatedWithinMaxLength ==
  Truncated =>
    /\ Len(gen.gitDiff) <= gen.limit
    /\ Len(gen.diff) <= gen.limit => gen.gitDiff = gen.diff

\* ---------------------------------------------------------------------------
\* C21

\* git commit has been executed
CommitExecuted == gen.commits # <<>>

LastAccepted == IF gen.editor = "saved" THEN gen.message ELSE gen.original

\* C25: the message committed is the one the user last accepted: the content saved
\* by the editor after 'e', editor exit 0 and 'y'; the unedited processed message
\* after 'e', a failing editor and 'y', and after 'u'.
C25_CommittedIsLastAccepted ==
  CommitExecuted => gen.commits[1] = LastAccepted

\* ---------------------------------------------------------------------------
\* C26

\* C26: after a curl-based getCompletion call has returned or thrown, every
\* temporary file it created has been deleted, including when the curl command
\* fails or produces no response file.
C26_TempFilesDeleted ==
  Called => gc.left = {}

====
